---- MODULE Spec2Model ----
(***************************************************************************)
(* Job orchestration and streaming sessions of the matchering web app:     *)
(* app/main.py (jobs, de-duplication, batch, upload directory) and         *)
(* app/api/frame_endpoints.py (sessions, WebSocket streaming).             *)
(*                                                                         *)
(* Scheduling: HTTP handlers are coroutines of one event loop; a handler   *)
(* with no await between two statements runs them as one step.  Plain      *)
(* functions passed to BackgroundTasks.add_task run on a worker thread     *)
(* after the response, so their steps interleave with every handler.       *)
(***************************************************************************)
EXTENDS Integers, Sequences, FiniteSets, TLC

VARIABLES
    active_jobs,          \* main.py:270  set of de-duplication keys
    processing_progress,  \* main.py:267  job id -> progress record
    batch_jobs,           \* main.py:264  batch id -> batch record
    uploadDir,            \* contents of UPLOAD_DIR: file name -> kind of data
    jobs,                 \* accepted requests: arguments and position of the task
    nextJob,              \* next fresh uuid4 (job ids are 1, 2, ...)
    resp,                 \* the last HTTP response sent
    clock,                \* int(time.time() * 1000)
    preview_generators,   \* frame_endpoints.py:35   session id -> session data
    session_parameters,   \* frame_endpoints.py:392  session id -> parameter set
    active_websockets,    \* frame_endpoints.py:395  session id -> connection
    websocket_tasks,      \* frame_endpoints.py:396  session id -> streaming task
    conns,                \* WebSocket connections: handler locals and streaming task
    nextConn,             \* next connection to be accepted
    nextUuid,             \* next uuid4 of /api/frame/initialize
    sessResp,             \* the last response of a session endpoint
    dsp,                  \* the last call of a stateless endpoint or audio routine
    tqdm_tqdm,            \* tqdm.tqdm, the attribute of the tqdm module
    separator_tqdm,       \* the name tqdm in the patched separator modules
    interceptors          \* ProgressInterceptor objects: job id -> fields

jobVars == <<active_jobs, processing_progress, batch_jobs, uploadDir, jobs,
             nextJob, resp>>
sessVars == <<clock, preview_generators, session_parameters>>
wsVars == <<active_websockets, websocket_tasks, conns, nextConn, nextUuid, sessResp>>
sepVars == <<tqdm_tqdm, separator_tqdm, interceptors>>
vars == <<active_jobs, processing_progress, batch_jobs, uploadDir, jobs,
          nextJob, resp, clock, preview_generators, session_parameters,
          active_websockets, websocket_tasks, conns, nextConn, nextUuid, sessResp,
          dsp, tqdm_tqdm, separator_tqdm, interceptors>>

----------------------------------------------------------------------------
(* Bounds of the model *)

MaxJobs == 2          \* accepted job-creating requests
MaxBatch == 2         \* target files in one modelled batch
MaxClock == 1         \* milliseconds the clock can advance

MaxFrames == 2        \* frames of an audio file given to an audio routine
MaxSignal == 4        \* rows of a signal given to the frame segmenter
MaxSegment == 4       \* samples of the segment extract_loudest_segment returns
MaxAudio == 6         \* samples of the longest reference it is given
HashSpace == 2        \* distinct values of the truncated digest in the model
MaxFrameSessions == 1 \* sessions /api/frame/initialize can attempt
MaxConns == 2         \* WebSocket connections accepted
NumChunks == 2        \* full chunks in the audio a connection streams
MaxLimiterInputs == 3 \* files in one process_limiter request

(* Program constants *)

BatchLimit == 20      \* at most 20 target files in a batch

UserNames == {1, 2}   \* client-chosen upload file names
Bytes == {0, 1}       \* byte values of an uploaded body
NoFile == 0           \* an optional upload that was not sent (File(None))
NoKey == <<"none", 0>>    \* dict.get("job_key") returning None

----------------------------------------------------------------------------
(* Helpers for dicts and sequences *)

Put(f, k, v) == [x \in (DOMAIN f) \cup {k} |-> IF x = k THEN v ELSE f[x]]

Del(f, k) == [x \in (DOMAIN f) \ {k} |-> f[x]]

Update(rec, stage, progress) == [rec EXCEPT !.stage = stage, !.progress = progress]

RECURSIVE SumBytes(_)
SumBytes(s) == IF s = <<>> THEN 0 ELSE (Head(s) + 1) + SumBytes(Tail(s))

Range(s) == {s[i] : i \in 1..Len(s)}

(* hashlib.md5(content).hexdigest()[:16]: a digest of the bytes, not injective *)
get_file_hash(content) == SumBytes(content) % HashSpace

----------------------------------------------------------------------------
(* start_job / finish_job *)

JobKey(job_type, file_hash) == <<job_type, file_hash>>

(* a start_job that never finds the key *)
StartJobAlwaysAccepts(job_type, file_hash) == TRUE

(* start_job's test `job_key in active_jobs` *)
start_job_accepts(job_type, file_hash) ==
    JobKey(job_type, file_hash) \notin active_jobs

start_job_active(job_type, file_hash) ==
    active_jobs \cup {JobKey(job_type, file_hash)}

start_job_progress(job_id, job_type, file_hash) ==
    Put(processing_progress, job_id,
        [stage |-> "starting", progress |-> 0,
         job_key |-> JobKey(job_type, file_hash)])

(* finish_job on a given active set and progress store *)
finish_job(aj, pp, job_id) ==
    IF job_id \in DOMAIN pp
    THEN IF pp[job_id].job_key # NoKey /\ pp[job_id].job_key \in aj
         THEN aj \ {pp[job_id].job_key}
         ELSE aj
    ELSE aj

----------------------------------------------------------------------------
(* The upload directory *)

(* a purge that removes nothing *)
KeepsEverything(dir, preserve_files) == dir

(* cleanup_processing_files: everything but the preserve-list goes *)
cleanup_processing_files(dir, preserve_files) ==
    [n \in (DOMAIN dir) \cap preserve_files |-> dir[n]]

(* open(path, "wb") and write *)
WriteFile(dir, name, kind) == Put(dir, name, kind)

RECURSIVE WriteFiles(_, _, _)
WriteFiles(dir, names, kind) ==
    IF names = <<>> THEN dir
    ELSE WriteFiles(WriteFile(dir, Head(names), kind), Tail(names), kind)

(* a run of os.remove calls: stops at the first missing file, which raises *)
RECURSIVE RemoveFiles(_, _)
RemoveFiles(dir, names) ==
    IF names = <<>> THEN [dir |-> dir, ok |-> TRUE]
    ELSE IF Head(names) \in DOMAIN dir
         THEN RemoveFiles(Del(dir, Head(names)), Tail(names))
         ELSE [dir |-> dir, ok |-> FALSE]

(* stem_input_{uuid4}.wav: a name no client file has *)
StemInputName(job_id) == 0 - job_id

(* the library can read `name` as the kind of data it expects *)
Readable(dir, name, kind) == name \in DOMAIN dir /\ dir[name] = kind

----------------------------------------------------------------------------
(* Bookkeeping of accepted requests *)

NewJob(job_type, file_hash, kind, pc, targets, aux, blend) ==
    [type |-> job_type, hash |-> file_hash, kind |-> kind, pc |-> pc,
     idx |-> 1, targets |-> targets, aux |-> aux, blend |-> blend,
     finished |-> FALSE, raised |-> FALSE, escaped |-> FALSE,
     libFault |-> FALSE]

(* an accepted job of this type and hash whose finish_job has not run *)
InFlight(job_type, file_hash) ==
    \E j \in DOMAIN jobs :
        /\ jobs[j].type = job_type
        /\ jobs[j].hash = file_hash
        /\ ~jobs[j].finished

(* what the model keeps of a response: the endpoint, the status code and whether
   an accepted job of the same type and content hash was in flight *)
NothingSupplied == [stem |-> FALSE, reference |-> FALSE, preset |-> FALSE]

Response(ep, code, dup) ==
    [ep |-> ep, code |-> code, dup |-> dup, supplied |-> NothingSupplied]

NoSession == <<"none", 0>>

(* what the model keeps of a session endpoint's response: the endpoint, the
   status code, the message and the session id returned or asked for *)
SessionResponse(ep, code, message, session_id) ==
    [ep |-> ep, code |-> code, message |-> message, session_id |-> session_id]

Reject429(ep, job_type, file_hash) ==
    /\ resp' = Response(ep, 429, InFlight(job_type, file_hash))
    /\ UNCHANGED <<active_jobs, processing_progress, batch_jobs, uploadDir,
                   jobs, nextJob>>

(* the progress-bar factories: tqdm's own class, and the custom_tqdm closure
   of the interceptor made for a job (main.py:1500-1529) *)
OriginalTqdm == <<"tqdm", 0>>

custom_tqdm(job_id) == <<"custom_tqdm", job_id>>

----------------------------------------------------------------------------
Init ==
    /\ active_jobs = {}
    /\ processing_progress = <<>>
    /\ batch_jobs = <<>>
    /\ uploadDir = <<>>
    /\ jobs = <<>>
    /\ nextJob = 1
    /\ resp = Response("none", 0, FALSE)
    /\ clock = 0
    /\ preview_generators = <<>>
    /\ session_parameters = <<>>
    /\ active_websockets = <<>>
    /\ websocket_tasks = <<>>
    /\ conns = <<>>
    /\ nextConn = 1
    /\ nextUuid = 1
    /\ sessResp = SessionResponse("none", 0, "", NoSession)
    /\ dsp = [op |-> "none"]
    /\ tqdm_tqdm = OriginalTqdm
    /\ separator_tqdm = OriginalTqdm
    /\ interceptors = <<>>

----------------------------------------------------------------------------
(* Streaming sessions created by the job endpoints *)

(* f"stream_{int(time.time() * 1000)}" and f"stem_stream_{...}" *)
StreamSessionId(t) == <<"stream", t>>

StemSessionId(t) == <<"stem_stream", t>>

(* main.py:887-901: the session a non-stem process_single registers *)
SingleSessionData(job_id) ==
    [has_generator |-> FALSE, is_stem_mode |-> FALSE, has_stream_paths |-> TRUE,
     owner |-> job_id]

SingleDefaultParameters ==
    [blend_ratio |-> 50, master_gain_db |-> 0, vocal_gain_db |-> 0,
     instrumental_gain_db |-> 0, is_stem_mode |-> FALSE]

----------------------------------------------------------------------------
(* POST /api/create_preset: no await after the body is read, so one step *)

CreatePreset(c, f) ==
    LET file_hash == get_file_hash(<<c>>)
        job_id == nextJob
        started == start_job_progress(job_id, "create_preset", file_hash)
        written == WriteFile(cleanup_processing_files(uploadDir, {f}), f, "audio")
    IN  /\ nextJob <= MaxJobs
        /\ UNCHANGED <<batch_jobs, sessVars, wsVars, dsp, sepVars>>
        /\ IF ~start_job_accepts("create_preset", file_hash)
           THEN Reject429("create_preset", "create_preset", file_hash)
           ELSE /\ nextJob' = nextJob + 1
                /\ processing_progress' = started
                \* finally: finish_job(job_id); os.remove(file_location)
                /\ active_jobs' = finish_job(start_job_active("create_preset", file_hash),
                                             started, job_id)
                /\ uploadDir' = RemoveFiles(written, <<f>>).dir
                /\ jobs' = Put(jobs, job_id,
                       [NewJob("create_preset", file_hash, "sync", "done", <<>>, <<>>, 0)
                          EXCEPT !.finished = TRUE])
                \* analyze_reference_track succeeds or raises
                /\ \E code \in {200, 500} :
                       resp' = Response("create_preset", code,
                                        InFlight("create_preset", file_hash))

----------------------------------------------------------------------------
(* POST /api/process_single *)

(* a check that rejects only a request with neither file *)
RejectsOnlyMissing(reference_file, preset_file) ==
    reference_file = NoFile /\ preset_file = NoFile

(* main.py:842-847: the two checks of the non-stem mode *)
InvalidChoice(reference_file, preset_file) ==
    \/ reference_file = NoFile /\ preset_file = NoFile
    \/ reference_file # NoFile /\ preset_file # NoFile

ProcessSingle(c, f, use_stem_separation, reference_file, preset_file, vocal_preset_file, instrumental_preset_file) ==
    LET file_hash == get_file_hash(<<c>>)
        job_id == nextJob
        started == start_job_progress(job_id, "process_single", file_hash)
        activeStarted == start_job_active("process_single", file_hash)
        files_to_preserve == {f, reference_file, preset_file, vocal_preset_file,
                              instrumental_preset_file} \ {NoFile}
        purged == cleanup_processing_files(uploadDir, files_to_preserve)
        initializing == Put(started, job_id,
                            [stage |-> "initializing", progress |-> 0,
                             job_key |-> started[job_id].job_key])
        \* what the form carried besides the target file
        supplied == [stem |-> use_stem_separation,
                     reference |-> reference_file # NoFile,
                     preset |-> preset_file # NoFile]
        \* a request that ends inside the handler: finish_job, then the response
        Ends(code, dir) ==
            /\ processing_progress' = started
            /\ active_jobs' = finish_job(activeStarted, started, job_id)
            /\ uploadDir' = dir
            /\ jobs' = Put(jobs, job_id,
                   [NewJob("process_single", file_hash, "sync", "done", <<>>, <<>>, 0)
                      EXCEPT !.finished = TRUE])
            /\ resp' = [Response("process_single", code,
                                InFlight("process_single", file_hash))
                          EXCEPT !.supplied = supplied]
        \* 881-912 / 925-954: the session is registered, then finish_job
        EndsWithSession(dir) ==
            /\ Ends(200, dir)
            /\ preview_generators' = Put(preview_generators, StreamSessionId(clock),
                                         SingleSessionData(job_id))
            /\ session_parameters' = Put(session_parameters, StreamSessionId(clock),
                                         SingleDefaultParameters)
            /\ UNCHANGED clock
        withTarget == WriteFile(purged, f, "audio")
        withRef == WriteFile(withTarget, reference_file, "audio")
        withPreset == WriteFile(withTarget, preset_file, "preset")
    IN  /\ nextJob <= MaxJobs
        /\ UNCHANGED <<batch_jobs, wsVars, dsp, sepVars>>
        /\ IF ~start_job_accepts("process_single", file_hash)
           THEN Reject429("process_single", "process_single", file_hash)
                /\ UNCHANGED <<sessVars, wsVars, dsp, sepVars>>
           ELSE /\ nextJob' = nextJob + 1
                /\ \/ /\ use_stem_separation /\ reference_file # NoFile
                      /\ processing_progress' = initializing
                      /\ active_jobs' = activeStarted
                      /\ uploadDir' = WriteFile(WriteFile(purged, f, "audio"),
                                                reference_file, "audio")
                      /\ jobs' = Put(jobs, job_id,
                             NewJob("process_single", file_hash, "stems_ref", "reference",
                                    <<f>>, <<reference_file>>, 0))
                      /\ resp' = Response("process_single", 200,
                                        InFlight("process_single", file_hash))
                      /\ UNCHANGED <<sessVars, wsVars, dsp, sepVars>>
                   \/ /\ use_stem_separation /\ reference_file = NoFile
                      /\ vocal_preset_file # NoFile /\ instrumental_preset_file # NoFile
                      /\ processing_progress' = initializing
                      /\ active_jobs' = activeStarted
                      /\ uploadDir' = WriteFiles(WriteFile(purged, f, "audio"),
                                        <<vocal_preset_file, instrumental_preset_file>>,
                                        "preset")
                      /\ jobs' = Put(jobs, job_id,
                             NewJob("process_single", file_hash, "stems_presets", "separate",
                                    <<f>>, <<vocal_preset_file, instrumental_preset_file>>, 0))
                      /\ resp' = Response("process_single", 200,
                                        InFlight("process_single", file_hash))
                      /\ UNCHANGED <<sessVars, wsVars, dsp, sepVars>>
                   \/ /\ use_stem_separation /\ reference_file = NoFile
                      /\ (vocal_preset_file = NoFile \/ instrumental_preset_file = NoFile)
                      /\ Ends(400, purged)
                      /\ UNCHANGED <<sessVars, wsVars, dsp, sepVars>>
                   \/ /\ ~use_stem_separation
                      /\ InvalidChoice(reference_file, preset_file)
                      /\ Ends(400, purged)
                      /\ UNCHANGED <<sessVars, wsVars, dsp, sepVars>>
                   \/ /\ ~use_stem_separation
                      /\ ~InvalidChoice(reference_file, preset_file)
                      /\ reference_file # NoFile
                      /\ \/ /\ Readable(withRef, f, "audio")
                            /\ EndsWithSession(RemoveFiles(withRef, <<reference_file>>).dir)
                         \/ /\ Ends(500, withRef)
                            /\ UNCHANGED <<sessVars, wsVars, dsp, sepVars>>
                   \/ /\ ~use_stem_separation
                      /\ ~InvalidChoice(reference_file, preset_file)
                      /\ reference_file = NoFile
                      /\ \/ /\ Readable(withPreset, f, "audio")
                            /\ EndsWithSession(RemoveFiles(withPreset, <<preset_file>>).dir)
                         \/ /\ Ends(500, withPreset)
                            /\ UNCHANGED <<sessVars, wsVars, dsp, sepVars>>

----------------------------------------------------------------------------
(* Steps of the background tasks *)

IsTask(j, kind, pc) == j \in DOMAIN jobs /\ jobs[j].kind = kind /\ jobs[j].pc = pc

(* processing_progress[job_id].update({...}) *)
ProgressUpdate(j, stage, progress) ==
    processing_progress' =
        Put(processing_progress, j, Update(processing_progress[j], stage, progress))

(* `except Exception`: the task's record takes stage "error", then `finally` *)
TaskError(j, lib) ==
    /\ ProgressUpdate(j, "error", 0)
    /\ jobs' = Put(jobs, j, [jobs[j] EXCEPT !.pc = "finally", !.raised = TRUE,
                                            !.libFault = @ \/ lib])

TaskGoto(j, pc) == jobs' = Put(jobs, j, [jobs[j] EXCEPT !.pc = pc])

(* the task function returns (or raises): its arguments and locals are gone *)
Returned(job) == [job EXCEPT !.pc = "done", !.idx = 1, !.targets = <<>>, !.aux = <<>>]

(* `finally: finish_job(job_id)` of the stem tasks *)
TaskFinally(j) ==
    /\ active_jobs' = finish_job(active_jobs, processing_progress, j)
    /\ jobs' = Put(jobs, j, [Returned(jobs[j]) EXCEPT !.finished = TRUE])

(* process_stems_with_presets_sync, 489-520: load the model, separate the target *)
PresetsSeparate(j) ==
    /\ IsTask(j, "stems_presets", "separate")
    /\ UNCHANGED <<active_jobs, batch_jobs, uploadDir, nextJob, resp, sessVars, wsVars, dsp, sepVars>>
    /\ \/ /\ Readable(uploadDir, jobs[j].targets[1], "audio")
          /\ ProgressUpdate(j, "processing_vocal", 50)
          /\ TaskGoto(j, "process")
       \/ TaskError(j, Readable(uploadDir, jobs[j].targets[1], "audio"))

(* 522-556: both stems processed with the uploaded presets, then "complete" *)
PresetsProcess(j) ==
    /\ IsTask(j, "stems_presets", "process")
    /\ UNCHANGED <<active_jobs, batch_jobs, uploadDir, nextJob, resp, sessVars, wsVars, dsp, sepVars>>
    /\ LET ok == /\ Readable(uploadDir, jobs[j].aux[1], "preset")
                 /\ Readable(uploadDir, jobs[j].aux[2], "preset")
       IN  \/ /\ ok
              /\ ProgressUpdate(j, "complete", 100)
              /\ TaskGoto(j, "cleanup")
           \/ TaskError(j, ok)

(* 559-561 / 714-715: os.remove of the task's uploads, inside the try *)
StemsCleanup(j) ==
    /\ j \in DOMAIN jobs
    /\ jobs[j].kind \in {"stems_presets", "stems_ref"}
    /\ jobs[j].pc = "cleanup"
    /\ UNCHANGED <<active_jobs, batch_jobs, nextJob, resp, sessVars, wsVars, dsp, sepVars>>
    /\ LET r == RemoveFiles(uploadDir, jobs[j].targets \o jobs[j].aux)
       IN  /\ uploadDir' = r.dir
           /\ IF r.ok
              THEN TaskGoto(j, "finally") /\ UNCHANGED processing_progress
              ELSE TaskError(j, FALSE)

(* 575-576 / 736-737 *)
StemsFinally(j) ==
    /\ j \in DOMAIN jobs
    /\ jobs[j].kind \in {"stems_presets", "stems_ref"}
    /\ jobs[j].pc = "finally"
    /\ TaskFinally(j)
    /\ UNCHANGED <<processing_progress, batch_jobs, uploadDir, nextJob, resp, sessVars, wsVars, dsp, sepVars>>

(* process_stems_with_reference_sync, 588-641: loudest segment of the reference,
   its separation, the two presets *)
ReferencePresets(j) ==
    /\ IsTask(j, "stems_ref", "reference")
    /\ UNCHANGED <<active_jobs, batch_jobs, uploadDir, nextJob, resp, sessVars, wsVars, dsp, sepVars>>
    /\ \/ /\ Readable(uploadDir, jobs[j].aux[1], "audio")
          /\ ProgressUpdate(j, "separating_target", 45)
          /\ TaskGoto(j, "target")
       \/ TaskError(j, Readable(uploadDir, jobs[j].aux[1], "audio"))

(* 643-711: the target separated, both stems processed, then "complete" *)
ReferenceTarget(j) ==
    /\ IsTask(j, "stems_ref", "target")
    /\ UNCHANGED <<active_jobs, batch_jobs, uploadDir, nextJob, resp, sessVars, wsVars, dsp, sepVars>>
    /\ \/ /\ Readable(uploadDir, jobs[j].targets[1], "audio")
          /\ ProgressUpdate(j, "complete", 100)
          /\ TaskGoto(j, "cleanup")
       \/ TaskError(j, Readable(uploadDir, jobs[j].targets[1], "audio"))

----------------------------------------------------------------------------
(* POST /api/separate_stems and separate_stems_background *)

SeparateStems(c) ==
    LET file_hash == get_file_hash(<<c>>)
        job_id == nextJob
        audio_filename == StemInputName(job_id)
    IN  /\ nextJob <= MaxJobs
        /\ UNCHANGED <<batch_jobs, sessVars, wsVars, dsp, sepVars>>
        /\ IF ~start_job_accepts("stem_separation", file_hash)
           THEN Reject429("separate_stems", "stem_separation", file_hash)
           ELSE /\ nextJob' = nextJob + 1
                /\ active_jobs' = start_job_active("stem_separation", file_hash)
                /\ processing_progress' =
                       start_job_progress(job_id, "stem_separation", file_hash)
                /\ uploadDir' = WriteFile(
                       cleanup_processing_files(uploadDir, {audio_filename}),
                       audio_filename, "audio")
                /\ jobs' = Put(jobs, job_id,
                       NewJob("stem_separation", file_hash, "separate", "init",
                              <<audio_filename>>, <<>>, 0))
                /\ resp' = Response("separate_stems", 200,
                                        InFlight("stem_separation", file_hash))

(* 1555-1559: the record start_job wrote is replaced by a new dict *)
InitialSeparationRecord == [stage |-> "initializing", progress |-> 0, job_key |-> NoKey]

(* 1553-1579: new record, model loaded *)
SeparationInit(j) ==
    /\ IsTask(j, "separate", "init")
    /\ UNCHANGED <<active_jobs, batch_jobs, uploadDir, nextJob, resp, sessVars, wsVars, dsp, sepVars>>
    /\ \/ /\ processing_progress' =
                 Put(processing_progress, j, Update(InitialSeparationRecord, "separating", 20))
          /\ TaskGoto(j, "separate")
       \/ /\ processing_progress' =
                 Put(processing_progress, j, Update(InitialSeparationRecord, "error", 0))
          /\ jobs' = Put(jobs, j, [jobs[j] EXCEPT !.pc = "finally", !.raised = TRUE,
                                                  !.libFault = TRUE])

(* 1581-1619 *)
SeparationRun(j) ==
    /\ IsTask(j, "separate", "separate")
    /\ UNCHANGED <<active_jobs, batch_jobs, uploadDir, nextJob, resp, sessVars, wsVars, dsp, sepVars>>
    /\ \/ /\ Readable(uploadDir, jobs[j].targets[1], "audio")
          /\ ProgressUpdate(j, "complete", 100)
          /\ TaskGoto(j, "finally")
       \/ TaskError(j, Readable(uploadDir, jobs[j].targets[1], "audio"))

(* 1620-1624 *)
SeparationFinally(j) ==
    /\ IsTask(j, "separate", "finally")
    /\ TaskFinally(j)
    /\ uploadDir' = IF jobs[j].targets[1] \in DOMAIN uploadDir
                    THEN Del(uploadDir, jobs[j].targets[1])
                    ELSE uploadDir
    /\ UNCHANGED <<processing_progress, batch_jobs, nextJob, resp, sessVars, wsVars, dsp, sepVars>>

----------------------------------------------------------------------------
(* GET /api/progress/{job_id}, main.py:372-378: the record as it is stored *)
GetProgress(job_id) ==
    /\ resp' = IF job_id \in DOMAIN processing_progress
               THEN [ep |-> "progress", code |-> 200, dup |-> FALSE,
                     supplied |-> NothingSupplied, job_id |-> job_id,
                     stage |-> processing_progress[job_id].stage,
                     progress |-> processing_progress[job_id].progress]
               ELSE [ep |-> "progress", code |-> 404, dup |-> FALSE,
                     supplied |-> NothingSupplied, job_id |-> job_id,
                     stage |-> "", progress |-> 0]
    /\ UNCHANGED <<dsp, sepVars, active_jobs, processing_progress, batch_jobs, uploadDir,
                   jobs, nextJob, sessVars, wsVars>>

----------------------------------------------------------------------------
(* ProgressInterceptor (main.py:1485-1548) around separator.separate of the
   stem-separation task (1582-1583), and POST /api/process_stems (414-478),
   whose separator.separate runs inside no interceptor.  The task runs in the
   thread pool, so its `with` block is three kinds of step: __enter__, the
   progress bar's updates while separate() runs, __exit__. *)

(* the percentages a progress bar reports: half way, and finished *)
BarPercents == {50, 100}

(* no ProgressInterceptor is inside its `with` block *)
NoneInside == \A j \in DOMAIN interceptors : ~interceptors[j].inside

(* 1504-1526: update() of a bar made by `factory`, at separation_progress
   percent.  tqdm's own bar touches nothing; custom_tqdm's writes the record
   of the job its interceptor was made for, if the store still has it. *)
update_with_callback(pp, factory, separation_progress) ==
    IF factory[1] = "custom_tqdm" /\ factory[2] \in DOMAIN pp
    THEN LET self == interceptors[factory[2]]
             overall_progress ==
                 self.stage_start_progress
                     + (separation_progress
                          * (self.stage_end_progress - self.stage_start_progress)) \div 100
         IN  Put(pp, factory[2], [pp[factory[2]] EXCEPT !.progress = overall_progress])
    ELSE pp

(* 1488-1542: ProgressInterceptor(job_id).__enter__; imported is whether the
   three separator modules can be imported (1532-1540) *)
InterceptorEnter(j, imported) ==
    /\ IsTask(j, "separate", "separate")
    /\ j \notin DOMAIN interceptors
    /\ interceptors' = Put(interceptors, j,
                            [original_tqdm |-> tqdm_tqdm,
                             stage_start_progress |-> 0, stage_end_progress |-> 100,
                             inside |-> TRUE])
    /\ separator_tqdm' = IF imported THEN custom_tqdm(j) ELSE separator_tqdm
    /\ UNCHANGED <<dsp, tqdm_tqdm, jobVars, sessVars, wsVars>>

(* 1583: separator.separate(audio_path) advancing its progress bar *)
SeparationProgress(j, separation_progress) ==
    /\ j \in DOMAIN interceptors
    /\ interceptors[j].inside
    /\ processing_progress' =
           update_with_callback(processing_progress, separator_tqdm, separation_progress)
    /\ UNCHANGED <<dsp, sepVars, active_jobs, batch_jobs, uploadDir, jobs, nextJob, resp,
                   sessVars, wsVars>>

(* 1544-1548: __exit__ assigns tqdm.tqdm; the separator modules' name is not
   assigned *)
InterceptorExit(j) ==
    /\ j \in DOMAIN interceptors
    /\ interceptors[j].inside
    /\ interceptors' = Put(interceptors, j, [interceptors[j] EXCEPT !.inside = FALSE])
    /\ tqdm_tqdm' = interceptors[j].original_tqdm
    /\ UNCHANGED <<dsp, separator_tqdm, jobVars, sessVars, wsVars>>

(* the `with` block of job j has been left *)
Exited(j) == j \in DOMAIN interceptors /\ ~interceptors[j].inside

(* POST /api/process_stems, 414-478: three uploads are written, the target is
   separated with whatever factory the separator modules hold, and `finally`
   removes the three files.  bar is how far the progress bar got: 0 when
   separate() raised before its first update, 100 when it finished. *)
ProcessStems(target_file, vocal_preset_file, instrumental_preset_file, bar) ==
    LET written == WriteFile(WriteFile(WriteFile(uploadDir, target_file, "audio"),
                                       vocal_preset_file, "preset"),
                             instrumental_preset_file, "preset")
        removed == RemoveFiles(written,
                               <<target_file, vocal_preset_file, instrumental_preset_file>>)
    IN  /\ bar > 0 => Readable(written, target_file, "audio")
        /\ processing_progress' =
               IF bar > 0
               THEN update_with_callback(processing_progress, separator_tqdm, bar)
               ELSE processing_progress
        /\ uploadDir' = removed.dir
        /\ resp' = Response("process_stems",
                            IF bar = 100 /\ removed.ok THEN 200 ELSE 500, FALSE)
        /\ UNCHANGED <<dsp, sepVars, active_jobs, batch_jobs, jobs, nextJob,
                       sessVars, wsVars>>

----------------------------------------------------------------------------
(* POST /api/process_batch and _run_batch_processing *)

(* f"{original_filename}-out-{preset_name}[-blend{pct}].wav" *)
OutputName(target, preset, blend) == <<target, preset, blend>>

BatchInputs(n) == [1..n -> UserNames \X Bytes]

ProcessBatch(preset_file, target_files, blend_ratio) ==
    LET names == [i \in 1..Len(target_files) |-> target_files[i][1]]
        target_contents == [i \in 1..Len(target_files) |-> target_files[i][2]]
        \* b"".join(target_contents): each modelled body is one byte
        file_hash == get_file_hash(target_contents)
        batch_id == nextJob
        files_to_preserve == {preset_file} \cup Range(names)
        purged == cleanup_processing_files(uploadDir, files_to_preserve)
    IN  /\ nextJob <= MaxJobs
        /\ UNCHANGED <<sessVars, wsVars, dsp, sepVars>>
        /\ IF ~(1 <= Len(target_files) /\ Len(target_files) <= BatchLimit)
           THEN /\ resp' = Response("process_batch", 400, FALSE)
                /\ UNCHANGED <<active_jobs, processing_progress, batch_jobs, uploadDir,
                               jobs, nextJob>>
           ELSE IF ~start_job_accepts("process_batch", file_hash)
           THEN Reject429("process_batch", "process_batch", file_hash)
                /\ UNCHANGED batch_jobs
           ELSE /\ nextJob' = nextJob + 1
                /\ active_jobs' = start_job_active("process_batch", file_hash)
                /\ processing_progress' =
                       start_job_progress(batch_id, "process_batch", file_hash)
                /\ batch_jobs' = Put(batch_jobs, batch_id,
                       [status |-> "pending", processed_count |-> 0,
                        total_count |-> Len(target_files), output_files |-> <<>>])
                /\ uploadDir' = WriteFiles(WriteFile(purged, preset_file, "preset"),
                                           names, "audio")
                /\ jobs' = Put(jobs, batch_id,
                       NewJob("process_batch", file_hash, "batch", "mg",
                              names, <<preset_file>>, blend_ratio))
                /\ resp' = Response("process_batch", 200,
                                        InFlight("process_batch", file_hash))

(* a task that reports "completed" whatever happened *)
AlwaysCompleted(j, status) ==
    batch_jobs' = Put(batch_jobs, j, [batch_jobs[j] EXCEPT !.status = "completed"])

BatchStatus(j, status) ==
    batch_jobs' = Put(batch_jobs, j, [batch_jobs[j] EXCEPT !.status = status])

(* 1351-1403: mg.process_with_preset on the i-th target (and, below 100%,
   the blend of the dry file with it); an exception goes to 1410-1412 *)
BatchProcess(j) ==
    /\ IsTask(j, "batch", "mg")
    /\ UNCHANGED <<active_jobs, processing_progress, uploadDir, nextJob, resp, sessVars, wsVars, dsp, sepVars>>
    /\ LET ok == /\ Readable(uploadDir, jobs[j].targets[jobs[j].idx], "audio")
                 /\ Readable(uploadDir, jobs[j].aux[1], "preset")
           \* the library failed although both of its input files exist
           present == {jobs[j].targets[jobs[j].idx], jobs[j].aux[1]} \subseteq DOMAIN uploadDir
       IN  \/ /\ ok
              /\ TaskGoto(j, "record")
              /\ UNCHANGED batch_jobs
           \/ /\ BatchStatus(j, "failed")
              /\ jobs' = Put(jobs, j, [jobs[j] EXCEPT !.pc = "finally", !.raised = TRUE,
                                                      !.libFault = @ \/ present])

(* 1405-1409: count, output path, os.remove(target_path); after the last
   target the status becomes "completed" *)
BatchRecord(j) ==
    /\ IsTask(j, "batch", "record")
    /\ UNCHANGED <<active_jobs, processing_progress, nextJob, resp, sessVars, wsVars, dsp, sepVars>>
    /\ LET i == jobs[j].idx
           target == jobs[j].targets[i]
           counted == [batch_jobs[j] EXCEPT
                         !.processed_count = i,
                         !.output_files = Append(@, OutputName(target, jobs[j].aux[1],
                                                               jobs[j].blend))]
           r == RemoveFiles(uploadDir, <<target>>)
       IN  /\ uploadDir' = r.dir
           /\ IF ~r.ok
              THEN /\ batch_jobs' = Put(batch_jobs, j, [counted EXCEPT !.status = "failed"])
                   /\ jobs' = Put(jobs, j, [jobs[j] EXCEPT !.pc = "finally",
                                                           !.raised = TRUE])
              ELSE IF i = Len(jobs[j].targets)
              THEN /\ batch_jobs' = Put(batch_jobs, j,
                                        [counted EXCEPT !.status = "completed"])
                   /\ TaskGoto(j, "finally")
              ELSE /\ batch_jobs' = Put(batch_jobs, j, counted)
                   /\ jobs' = Put(jobs, j, [jobs[j] EXCEPT !.pc = "mg", !.idx = i + 1])

(* 1413-1415: finish_job(batch_id), then an unguarded os.remove(preset_path) *)
BatchFinally(j) ==
    /\ IsTask(j, "batch", "finally")
    /\ UNCHANGED <<processing_progress, batch_jobs, nextJob, resp, sessVars, wsVars, dsp, sepVars>>
    /\ active_jobs' = finish_job(active_jobs, processing_progress, j)
    /\ LET r == RemoveFiles(uploadDir, jobs[j].aux)
       IN  /\ uploadDir' = r.dir
           /\ jobs' = Put(jobs, j, [Returned(jobs[j]) EXCEPT !.finished = TRUE,
                                                             !.raised = @ \/ ~r.ok,
                                                             !.escaped = ~r.ok])

----------------------------------------------------------------------------
(* The clock read by the session-creating handlers *)

Tick ==
    /\ clock < MaxClock
    /\ clock' = clock + 1
    /\ UNCHANGED <<dsp, sepVars, jobVars, preview_generators, session_parameters, wsVars>>

----------------------------------------------------------------------------
(* The session endpoints *)

FrameSessionId(n) == <<"uuid", n>>

(* main.py:1250-1257: the session data of create_stem_session *)
StemSessionData ==
    [has_generator |-> FALSE, is_stem_mode |-> TRUE, has_stream_paths |-> TRUE, owner |-> 0]

(* main.py:1266-1276 *)
StemDefaultParameters ==
    [vocal_blend_ratio |-> 50, instrumental_blend_ratio |-> 50, vocal_gain_db |-> 0,
     instrumental_gain_db |-> 0, master_gain_db |-> 0, is_stem_mode |-> TRUE]

(* frame_endpoints.py:136-142: the session data of /api/frame/initialize *)
FrameSessionData ==
    [has_generator |-> TRUE, is_stem_mode |-> FALSE, has_stream_paths |-> FALSE, owner |-> 0]

(* POST /api/create_stem_session, main.py:1233-1284 *)
CreateStemSession ==
    /\ preview_generators' = Put(preview_generators, StemSessionId(clock), StemSessionData)
    /\ session_parameters' = Put(session_parameters, StemSessionId(clock),
                                 StemDefaultParameters)
    /\ sessResp' = SessionResponse("create_stem_session", 200,
                                   "Stem streaming session created successfully",
                                   StemSessionId(clock))
    /\ UNCHANGED <<dsp, sepVars, jobVars, clock, active_websockets, websocket_tasks, conns,
                   nextConn, nextUuid>>

(* the same handler with the four stem paths of the form kept: `paths` stands
   for the quadruple the request carries (main.py:1250-1255) *)
StemPaths == {0, 1}

CreateStemSessionFor(paths) ==
    /\ preview_generators' = Put(preview_generators, StemSessionId(clock),
                                 [StemSessionData EXCEPT !.owner = paths])
    /\ session_parameters' = Put(session_parameters, StemSessionId(clock),
                                 StemDefaultParameters)
    /\ sessResp' = SessionResponse("create_stem_session", 200,
                                   "Stem streaming session created successfully",
                                   StemSessionId(clock))
    /\ UNCHANGED <<dsp, sepVars, jobVars, clock, active_websockets, websocket_tasks, conns,
                   nextConn, nextUuid>>

(* POST /api/frame/initialize, frame_endpoints.py:69-165.  available is
   is_frame_processing_available(), success the result of
   generator.initialize_for_session; the session is stored at 136, before the
   check of the inputs at 145, whose HTTPException(400) the handler's own
   "except Exception" turns into a 500. *)
InitializeFrame(available, audio_file, vocal_file, instrumental_file, success) ==
    LET session_id == FrameSessionId(nextUuid)
    IN  /\ nextUuid <= MaxFrameSessions
        /\ UNCHANGED <<dsp, sepVars, jobVars, clock, session_parameters, active_websockets,
                       websocket_tasks, conns, nextConn>>
        /\ IF ~available
           THEN /\ sessResp' = SessionResponse("initialize", 501,
                                               "Frame-based processing not available",
                                               NoSession)
                /\ UNCHANGED <<preview_generators, nextUuid>>
           ELSE /\ nextUuid' = nextUuid + 1
                /\ IF ~success
                   THEN /\ sessResp' = SessionResponse("initialize", 500,
                                            "Failed to initialize frame processing", NoSession)
                        /\ UNCHANGED preview_generators
                   ELSE /\ preview_generators' =
                               Put(preview_generators, session_id, FrameSessionData)
                        /\ sessResp' =
                               IF ~audio_file /\ ~(vocal_file /\ instrumental_file)
                               THEN SessionResponse("initialize", 500,
                                                    "Either audio_file or both", NoSession)
                               ELSE SessionResponse("initialize", 200,
                                                    "Frame processing session initialized",
                                                    session_id)

(* DELETE /api/frame/session/{session_id}, frame_endpoints.py:279-307.
   session_data["generator"] raises KeyError for a session stored without a
   generator; the handler catches it and answers "Cleanup failed" before the
   del at 291 is reached. *)
CleanupFrameSession(session_id) ==
    /\ UNCHANGED <<dsp, sepVars, jobVars, clock, session_parameters, active_websockets,
                   websocket_tasks, conns, nextConn, nextUuid>>
    /\ IF session_id \in DOMAIN preview_generators
       THEN IF preview_generators[session_id].has_generator
            THEN /\ preview_generators' = Del(preview_generators, session_id)
                 /\ sessResp' = SessionResponse("cleanup_frame_session", 200, "cleaned up",
                                                 session_id)
            ELSE /\ sessResp' = SessionResponse("cleanup_frame_session", 200,
                                                "Cleanup failed", session_id)
                 /\ UNCHANGED preview_generators
       ELSE /\ sessResp' = SessionResponse("cleanup_frame_session", 200,
                                           "Session not found", session_id)
            /\ UNCHANGED preview_generators

(* POST /api/frame/preview, frame_endpoints.py:168-219.  The handler reads
   session_data["generator"] and session_data["audio_path"]; a session stored
   without them raises KeyError inside the try, which becomes a 500.  rendered
   is whether generator.generate_preview reads the audio and writes the
   preview without raising. *)
GenerateFramePreview(session_id, rendered) ==
    /\ UNCHANGED <<dsp, sepVars, jobVars, sessVars, active_websockets, websocket_tasks, conns,
                   nextConn, nextUuid>>
    /\ sessResp' =
          IF session_id \notin DOMAIN preview_generators
          THEN SessionResponse("preview", 404, "Invalid or expired session ID", session_id)
          ELSE IF ~preview_generators[session_id].has_generator
               THEN SessionResponse("preview", 500, "'generator'", session_id)
               ELSE IF rendered
                    THEN SessionResponse("preview", 200, "Frame-based preview generated",
                                         session_id)
                    ELSE SessionResponse("preview", 500, "render failed", session_id)

----------------------------------------------------------------------------
(* The WebSocket endpoint /api/frame/ws/{session_id}, frame_endpoints.py:558-838.
   A connection is the handler coroutine with its closure variables
   current_position and is_playing, and the streaming task it creates.  Both
   run on one event loop and give up control only at an await: the handler
   between two inbound messages, the task inside send_json, send_bytes and
   sleep. *)

chunk_samples == 4096

(* len(original_audio): NumChunks full chunks and a one-sample tail *)
AudioLength == NumChunks * chunk_samples + 1

NoSeek == 0 - 1

Min(a, b) == IF a < b THEN a ELSE b

Max(a, b) == IF a > b THEN a ELSE b

(* 629-630, 761: the state of a connection.  last is the type of the last frame
   sent to the client, seeked the position of a "seeked" reply that no chunk
   and no stop has followed yet. *)
NewConn(session_id, is_stem_mode, open, task, code) ==
    [sid |-> session_id, is_stem_mode |-> is_stem_mode, open |-> open, closeCode |-> code,
     current_position |-> 0, is_playing |-> FALSE,
     task |-> task, pc |-> "loop", end_sample |-> 0,
     last |-> "none", seeked |-> NoSeek]

Emit(conn, type) == [conn EXCEPT !.last = type]

(* task.cancel(): a task that already ended stays as it is *)
Cancel(cs, c) ==
    [cs EXCEPT ![c].task = IF @ = "running" THEN "cancelled" ELSE @]

(* 831-838: the finally block, which looks the registries up by session id *)
CleanupTasks(cs, session_id) ==
    IF session_id \in DOMAIN websocket_tasks
    THEN Cancel(cs, websocket_tasks[session_id])
    ELSE cs

(* a handler that stores the connection and starts streaming before it looks
   the session id up *)
WsConnectRegistersFirst(session_id, readable) ==
    /\ nextConn <= MaxConns
    /\ nextConn' = nextConn + 1
    /\ UNCHANGED <<dsp, sepVars, jobVars, sessVars, nextUuid, sessResp>>
    /\ conns' = Put(conns, nextConn, NewConn(session_id, FALSE, TRUE, "running", 0))
    /\ active_websockets' = Put(active_websockets, session_id, nextConn)
    /\ websocket_tasks' = Put(websocket_tasks, session_id, nextConn)

(* 567-762: accept, check the session id, register the connection, load the
   audio and start the streaming task.  readable is whether sf.read finds the
   files the session data names. *)
WsConnect(session_id, readable) ==
    LET c == nextConn
    IN  /\ nextConn <= MaxConns
        /\ nextConn' = nextConn + 1
        /\ UNCHANGED <<dsp, sepVars, jobVars, sessVars, nextUuid, sessResp>>
        /\ IF session_id \notin DOMAIN preview_generators
           THEN \* 569-572: close(code=1008)
                /\ conns' = Put(conns, c, NewConn(session_id, FALSE, FALSE, "none", 1008))
                /\ UNCHANGED <<active_websockets, websocket_tasks>>
           ELSE IF preview_generators[session_id].has_stream_paths /\ readable
                THEN /\ conns' = Put(conns, c, NewConn(session_id,
                                           preview_generators[session_id].is_stem_mode,
                                           TRUE, "running", 0))
                     /\ active_websockets' = Put(active_websockets, session_id, c)
                     /\ websocket_tasks' = Put(websocket_tasks, session_id, c)
                ELSE \* 579, then KeyError or a failed read: 829-838
                     /\ conns' = CleanupTasks(
                                    Put(conns, c,
                                        NewConn(session_id,
                                                preview_generators[session_id].is_stem_mode,
                                                FALSE, "none", 0)),
                                    session_id)
                     /\ active_websockets' = Del(active_websockets, session_id)
                     /\ websocket_tasks' = Del(websocket_tasks, session_id)

IsOpen(c) == c \in DOMAIN conns /\ conns[c].open

WsReply(c, conn, type) ==
    /\ conns' = Put(conns, c, Emit(conn, type))
    /\ UNCHANGED <<dsp, sepVars, jobVars, sessVars, active_websockets, websocket_tasks, nextConn,
                   nextUuid, sessResp>>

(* 770-772 *)
WsPlay(c) ==
    /\ IsOpen(c)
    /\ WsReply(c, [conns[c] EXCEPT !.is_playing = TRUE], "status")

(* 774-776 *)
WsPause(c) ==
    /\ IsOpen(c)
    /\ WsReply(c, [conns[c] EXCEPT !.is_playing = FALSE], "status")

(* 778-781 *)
WsStop(c) ==
    /\ IsOpen(c)
    /\ WsReply(c, [conns[c] EXCEPT !.is_playing = FALSE, !.current_position = 0,
                                   !.seeked = NoSeek], "status")

(* 783-790: seek_position in percent of the length *)
SeekTarget(seek_position) ==
    Max(0, Min((seek_position * AudioLength) \div 100, AudioLength - 1))

WsSeek(c, seek_position) ==
    /\ IsOpen(c)
    /\ WsReply(c, [conns[c] EXCEPT !.current_position = SeekTarget(seek_position),
                                   !.seeked = SeekTarget(seek_position)], "seeked")

(* a handler that leaves its loop after the error reply *)
WsInvalidCloses(c) ==
    /\ IsOpen(c)
    /\ WsReply(c, [conns[c] EXCEPT !.open = FALSE], "error")

(* 821-825: a message that is not JSON, or whose handling raises *)
WsInvalid(c) ==
    /\ IsOpen(c)
    /\ WsReply(c, conns[c], "error")

(* dict.get(key, default) *)
Get(params, key, default) == IF key \in DOMAIN params THEN params[key] ELSE default

(* 792-819: ratios in percent, gains in dB *)
StoredParameters(is_stem_mode, params) ==
    IF is_stem_mode
    THEN [vocal_blend_ratio |-> Get(params, "vocal_blend_ratio", 50),
          instrumental_blend_ratio |-> Get(params, "instrumental_blend_ratio", 50),
          vocal_gain_db |-> Get(params, "vocal_gain_db", 0),
          instrumental_gain_db |-> Get(params, "instrumental_gain_db", 0),
          master_gain_db |-> Get(params, "master_gain_db", 0),
          is_stem_mode |-> TRUE]
    ELSE [blend_ratio |-> Get(params, "blend_ratio", 50),
          master_gain_db |-> Get(params, "master_gain_db", 0),
          vocal_gain_db |-> Get(params, "vocal_gain_db", 0),
          instrumental_gain_db |-> Get(params, "instrumental_gain_db", 0),
          is_stem_mode |-> FALSE]

WsParameters(c, params) ==
    /\ IsOpen(c)
    /\ session_parameters' = Put(session_parameters, conns[c].sid,
                                 StoredParameters(conns[c].is_stem_mode, params))
    /\ conns' = Put(conns, c, Emit(conns[c], "parameters_updated"))
    /\ UNCHANGED <<dsp, sepVars, jobVars, clock, preview_generators, active_websockets,
                   websocket_tasks, nextConn, nextUuid, sessResp>>

(* the client disconnects: iter_text ends and the finally block 831-838 runs *)
WsClose(c) ==
    /\ IsOpen(c)
    /\ conns' = CleanupTasks([conns EXCEPT ![c].open = FALSE], conns[c].sid)
    /\ active_websockets' = Del(active_websockets, conns[c].sid)
    /\ websocket_tasks' = Del(websocket_tasks, conns[c].sid)
    /\ UNCHANGED <<dsp, sepVars, jobVars, sessVars, nextConn, nextUuid, sessResp>>

Running(c) == c \in DOMAIN conns /\ conns[c].task = "running"

StreamUpdate(c, conn) ==
    /\ conns' = Put(conns, c, conn)
    /\ UNCHANGED <<dsp, sepVars, jobVars, sessVars, active_websockets, websocket_tasks, nextConn,
                   nextUuid, sessResp>>

(* a send on a connection whose handler has left raises inside the task *)
SendFails(c) == StreamUpdate(c, [conns[c] EXCEPT !.task = "failed"])

(* 638-744: one pass of the loop up to the first await of a send.  The slice
   current_position:end_sample is empty only if end_sample = current_position. *)
StreamChunk(c) ==
    LET conn == conns[c]
        end_sample == Min(conn.current_position + chunk_samples, AudioLength)
    IN  /\ Running(c) /\ conn.pc = "loop"
        /\ conn.is_playing /\ conn.current_position < AudioLength
        /\ IF ~conn.open
           THEN SendFails(c)
           ELSE IF end_sample - conn.current_position = 0
                THEN StreamUpdate(c, Emit([conn EXCEPT !.is_playing = FALSE],
                                          "playback_ended"))
                ELSE StreamUpdate(c,
                         Emit([conn EXCEPT
                                  !.pc = "meta", !.end_sample = end_sample,
                                  !.seeked = NoSeek],
                              "audio_chunk"))

(* 747: the task resumes after send_json and sends the binary frame *)
StreamBytes(c) ==
    /\ Running(c) /\ conns[c].pc = "meta"
    /\ IF ~conns[c].open
       THEN SendFails(c)
       ELSE StreamUpdate(c, Emit([conns[c] EXCEPT !.pc = "bytes"], "binary"))

(* 750-754: the task resumes after send_bytes, advances the cursor and sleeps *)
StreamAdvance(c) ==
    /\ Running(c) /\ conns[c].pc = "bytes"
    /\ StreamUpdate(c, [conns[c] EXCEPT !.pc = "loop",
                                        !.current_position = conns[c].end_sample])

StreamStep(c) == StreamChunk(c) \/ StreamBytes(c) \/ StreamAdvance(c)

----------------------------------------------------------------------------
(* The stateless audio endpoints of main.py.  Ratios are in percent, gains in
   dB.  Each handler is one step: its body has no await. *)

progVars == <<jobVars, sessVars, wsVars, sepVars>>

(* what a handler answers when `raise HTTPException(status_code, ...)` is
   executed inside its `try`: HTTPException is an Exception, so the handler's
   `except Exception` catches it and raises HTTPException(500) in its place;
   then the `finally` block runs.  If the paths the block cleans up were
   already assigned the 500 is the answer; if not, reading them raises
   UnboundLocalError, which leaves the handler and the server answers 500. *)
RaisedInTry(status_code, paths_assigned) ==
    [code |-> 500, error |-> IF paths_assigned THEN "HTTPException" ELSE "UnboundLocalError"]

Succeeded == [code |-> 200, error |-> ""]

(* POST /api/process_channel, main.py:1685-1742.  processed is whether
   process_channel returns without raising. *)
ApiProcessChannel(blend_ratio, volume_adjust_db, processed) ==
    LET answer ==
            IF ~(0 <= blend_ratio /\ blend_ratio <= 100)
            THEN RaisedInTry(400, FALSE)
            ELSE IF ~(0 - 12 <= volume_adjust_db /\ volume_adjust_db <= 12)
                 THEN RaisedInTry(400, FALSE)
                 ELSE IF processed THEN Succeeded ELSE RaisedInTry(500, TRUE)
    IN  /\ dsp' = [op |-> "api_process_channel", blend_ratio |-> blend_ratio,
                   gain_db |-> volume_adjust_db, files |-> 2,
                   code |-> answer.code, error |-> answer.error]
        /\ UNCHANGED progVars

(* POST /api/process_limiter, main.py:1745-1799, with input_files >= 1 files *)
ApiProcessLimiter(input_files, gain_adjust_db, processed) ==
    LET answer ==
            IF input_files = 0
            THEN RaisedInTry(400, FALSE)
            ELSE IF input_files > 2
                 THEN RaisedInTry(400, FALSE)
                 ELSE IF ~(0 - 12 <= gain_adjust_db /\ gain_adjust_db <= 12)
                      THEN RaisedInTry(400, FALSE)
                      ELSE IF processed THEN Succeeded ELSE RaisedInTry(500, TRUE)
    IN  /\ dsp' = [op |-> "api_process_limiter", blend_ratio |-> 0,
                   gain_db |-> gain_adjust_db, files |-> input_files,
                   code |-> answer.code, error |-> answer.error]
        /\ UNCHANGED progVars

----------------------------------------------------------------------------
Optional == UserNames \cup {NoFile}

JobRequest ==
    \/ \E c \in Bytes, f \in UserNames : CreatePreset(c, f)
    \/ \E c \in Bytes, f \in UserNames, stem \in BOOLEAN,
          r \in Optional, p \in Optional, vp \in Optional, ip \in Optional :
            ProcessSingle(c, f, stem, r, p, vp, ip)
    \/ \E c \in Bytes : SeparateStems(c)
    \/ \E p \in UserNames, n \in 0..MaxBatch, blend \in {50, 100} :
          \E files \in BatchInputs(n) : ProcessBatch(p, files, blend)

JobStep ==
    \E j \in 1..MaxJobs :
        \/ PresetsSeparate(j)
        \/ PresetsProcess(j)
        \/ ReferencePresets(j)
        \/ ReferenceTarget(j)
        \/ StemsCleanup(j)
        \/ StemsFinally(j)
        \/ SeparationInit(j)
        \/ SeparationRun(j)
        \/ SeparationFinally(j)
        \/ BatchProcess(j)
        \/ BatchRecord(j)
        \/ BatchFinally(j)

JobNext == JobRequest \/ JobStep

JobSpec == Init /\ [][JobNext]_vars

(* Stem-separation jobs with their interceptors, next to /api/process_stems *)
SepNext ==
    \/ \E c \in Bytes : SeparateStems(c)
    \/ \E j \in 1..MaxJobs : SeparationInit(j)
    \/ \E j \in 1..MaxJobs, imported \in BOOLEAN : InterceptorEnter(j, imported)
    \/ \E j \in 1..MaxJobs, p \in BarPercents : SeparationProgress(j, p)
    \/ \E j \in 1..MaxJobs : InterceptorExit(j)
    \/ \E j \in 1..MaxJobs : Exited(j) /\ SeparationRun(j)
    \/ \E j \in 1..MaxJobs : SeparationFinally(j)
    \/ \E t \in UserNames, v \in UserNames, i \in UserNames, bar \in {0} \cup BarPercents :
          ProcessStems(t, v, i, bar)

SepSpec == Init /\ [][SepNext]_vars

(* Stem jobs and a client that polls their progress.  The tasks run in the
   thread pool and the client repeats its GET, so the steps of each task and
   the polls of each job id are weakly fair. *)
StemStep(j) ==
    \/ PresetsSeparate(j)
    \/ PresetsProcess(j)
    \/ ReferencePresets(j)
    \/ ReferenceTarget(j)
    \/ StemsCleanup(j)
    \/ StemsFinally(j)
    \/ SeparationInit(j)
    \/ SeparationRun(j)
    \/ SeparationFinally(j)

PollNext ==
    \/ \E c \in Bytes : SeparateStems(c)
    \/ \E c \in Bytes, r \in Optional, vp \in Optional, ip \in Optional :
          ProcessSingle(c, 1, TRUE, r, NoFile, vp, ip)
    \/ \E j \in 1..MaxJobs : StemStep(j)
    \/ \E job_id \in 1..MaxJobs : GetProgress(job_id)

PollSpec ==
    /\ Init /\ [][PollNext]_vars
    /\ \A j \in 1..MaxJobs : WF_vars(StemStep(j)) /\ WF_vars(GetProgress(j))

(* the session ids a client can name: those the program hands out and one it
   never does *)
UnknownId == <<"unknown", 0>>

SessionIds ==
    {StreamSessionId(t) : t \in 0..MaxClock} \cup {StemSessionId(t) : t \in 0..MaxClock}
        \cup {FrameSessionId(n) : n \in 1..MaxFrameSessions} \cup {UnknownId}

SeekPositions == {0, 50, 150}

(* the params object of a "parameters" message *)
ClientParams ==
    {[blend_ratio |-> 100, master_gain_db |-> 12],
     [vocal_blend_ratio |-> 150],
     [master_gain_db |-> 13]}

InitializeRequest ==
    \E available \in BOOLEAN, audio_file \in BOOLEAN, vocal_file \in BOOLEAN,
       instrumental_file \in BOOLEAN, success \in BOOLEAN :
        InitializeFrame(available, audio_file, vocal_file, instrumental_file, success)

(* Streaming: a stem session and clients that connect to it or to an id that
   was never handed out, send the transport messages and disconnect *)
StreamNext ==
    \/ CreateStemSession
    \/ \E session_id \in {StemSessionId(0), UnknownId}, readable \in BOOLEAN :
          WsConnect(session_id, readable)
    \/ \E c \in 1..MaxConns :
          \/ WsPlay(c)
          \/ WsPause(c)
          \/ WsStop(c)
          \/ \E seek_position \in SeekPositions : WsSeek(c, seek_position)
          \/ WsInvalid(c)
          \/ WsClose(c)
          \/ StreamChunk(c)
          \/ StreamBytes(c)
          \/ StreamAdvance(c)

StreamSpec == Init /\ [][StreamNext]_vars

(* Steady playback: clients that connect and press play once, nothing else.
   The event loop resumes a task whose await has completed, so every step of a
   streaming task is weakly fair. *)
PlayNext ==
    \/ CreateStemSession
    \/ \E readable \in BOOLEAN : WsConnect(StemSessionId(0), readable)
    \/ \E c \in 1..MaxConns :
          \/ IsOpen(c) /\ conns[c].last = "none" /\ WsPlay(c)
          \/ StreamChunk(c)
          \/ StreamBytes(c)
          \/ StreamAdvance(c)

PlaySpec ==
    Init /\ [][PlayNext]_vars /\ \A c \in 1..MaxConns : WF_vars(StreamStep(c))

(* Sessions: the three handlers that register a session, the DELETE and the
   preview handler, and the clock *)
SessNext ==
    \/ \E paths \in StemPaths : CreateStemSessionFor(paths)
    \/ InitializeRequest
    \/ \E c \in Bytes, r \in Optional, p \in Optional :
          ProcessSingle(c, 1, FALSE, r, p, NoFile, NoFile)
    \/ \E session_id \in SessionIds : CleanupFrameSession(session_id)
    \/ \E session_id \in SessionIds, rendered \in BOOLEAN :
          GenerateFramePreview(session_id, rendered)
    \/ Tick

SessSpec == Init /\ [][SessNext]_vars

(* Parameters: a stem session, a process_single session, and clients whose only
   message is "parameters" *)
ParamNext ==
    \/ CreateStemSession
    \/ \E p \in Optional : ProcessSingle(0, 1, FALSE, NoFile, p, NoFile, NoFile)
    \/ \E session_id \in {StreamSessionId(0), StemSessionId(0)}, readable \in BOOLEAN :
          WsConnect(session_id, readable)
    \/ \E c \in 1..MaxConns :
          \/ \E params \in ClientParams : WsParameters(c, params)
          \/ WsClose(c)

ParamSpec == Init /\ [][ParamNext]_vars

----------------------------------------------------------------------------
(* Properties of the job endpoints *)

Background(j) == jobs[j].kind # "sync"

Unfinished == {j \in DOMAIN jobs : ~jobs[j].finished}

(* C1: a submission whose job type and content hash equal those of an accepted
   job that has not run finish_job is answered 429, and no two unfinished jobs
   share a job type and content hash. *)
C1_DuplicateRejected ==
    /\ resp.dup => resp.code = 429
    /\ \A j1 \in Unfinished, j2 \in Unfinished :
           (jobs[j1].type = jobs[j2].type /\ jobs[j1].hash = jobs[j2].hash) => j1 = j2

(* a duplicate arrived while the first job was still running and got 429 *)
C1_Witness == resp.code = 429 /\ resp.dup /\ Unfinished # {}

(* C2: every key in active_jobs belongs to a job that has not yet run
   finish_job, so a 429 is only ever sent while such a job exists. *)
C2_KeyRemovedOnFinish ==
    /\ \A k \in active_jobs :
           \E j \in Unfinished : JobKey(jobs[j].type, jobs[j].hash) = k
    /\ resp.code = 429 => resp.dup

(* C3: no exception leaves a background task function, and a task in which an
   exception was raised ends with stage "error" (batch: status "failed"). *)
C3_TaskFailuresRecorded ==
    \A j \in DOMAIN jobs :
        /\ ~jobs[j].escaped
        /\ (Background(j) /\ jobs[j].pc = "done" /\ jobs[j].raised) =>
               IF jobs[j].kind = "batch"
               THEN batch_jobs[j].status = "failed"
               ELSE processing_progress[j].stage = "error"

(* C4: a batch accepted with blend_ratio = 1.0, alone on the server, on whose
   existing files the library never failed, ends "completed" with
   processed_count = N and N output files, one per target. *)
C4_BatchCompletes ==
    \A j \in DOMAIN jobs :
        (/\ DOMAIN jobs = {j}
         /\ jobs[j].kind = "batch" /\ jobs[j].pc = "done"
         /\ jobs[j].blend = 100 /\ ~jobs[j].libFault) =>
            /\ batch_jobs[j].status = "completed"
            /\ batch_jobs[j].processed_count = batch_jobs[j].total_count
            /\ Len(batch_jobs[j].output_files) = batch_jobs[j].total_count
            /\ Cardinality(Range(batch_jobs[j].output_files)) = batch_jobs[j].total_count


----------------------------------------------------------------------------
(* Properties of the WebSocket endpoint and the sessions *)

(* the step in which a streaming task sends the metadata of a new chunk *)
EmitsChunk(c) == conns[c].pc = "loop" /\ conns'[c].pc = "meta"

(* C5: once a connection has been answered "seeked" with position p, and no
   stop has moved the cursor since, the next chunk the server emits on that
   connection starts at p. *)
C5_SeekBeforeNextChunk ==
    [][\A c \in DOMAIN conns :
          (conns[c].seeked # NoSeek /\ EmitsChunk(c)) =>
              conns[c].current_position = conns[c].seeked]_vars

(* C6: the frame a connection receives right after the metadata of an audio
   chunk is that chunk's binary payload. *)
C6_BinaryFollowsMetadata ==
    [][\A c \in DOMAIN conns :
          (conns[c].last = "audio_chunk" /\ conns'[c].last # conns[c].last) =>
              conns'[c].last = "binary"]_vars

(* C7: on a connection that plays steadily, whose streaming task keeps
   running, the server eventually sends "playback_ended". *)
C7_PlaybackEnds ==
    \A c \in 1..MaxConns :
        [](Running(c) /\ conns[c].is_playing =>
              <>(~Running(c) \/ conns[c].last = "playback_ended"))

(* a connection that was accepted and whose handler has left *)
Gone(c) == c \in DOMAIN conns /\ ~conns[c].open

Registered(registry, c) == \E session_id \in DOMAIN registry : registry[session_id] = c

(* C8: once the handler of a connection has left, the streaming task created
   for that connection no longer runs, and neither the connection nor its task
   is in a registry. *)
C8_ClosedConnectionCleaned ==
    \A c \in DOMAIN conns :
        Gone(c) => /\ conns[c].task # "running"
                   /\ ~Registered(active_websockets, c)
                   /\ ~Registered(websocket_tasks, c)

Ratios(params) ==
    IF params.is_stem_mode
    THEN {params.vocal_blend_ratio, params.instrumental_blend_ratio}
    ELSE {params.blend_ratio}

Gains(params) == {params.master_gain_db, params.vocal_gain_db, params.instrumental_gain_db}

(* C9: every stored parameter set has its blend ratios between 0 and 1 (0 and
   100 percent) and its gains between -12 and +12 dB. *)
C9_ParametersInRange ==
    \A session_id \in DOMAIN session_parameters :
        /\ Ratios(session_parameters[session_id]) \subseteq 0..100
        /\ Gains(session_parameters[session_id]) \subseteq (0 - 12)..12

(* C10: after DELETE /api/frame/session/{id} has answered, the session id is
   not registered, whichever handler registered it; for an id that is absent
   the answer is "Session not found". *)
C10_DeleteRemovesSession ==
    sessResp.ep = "cleanup_frame_session" =>
        /\ sessResp.session_id \notin DOMAIN preview_generators
        /\ sessResp.message \in {"cleaned up", "Session not found"}

(* the session ids that process_single hands out *)
FromProcessSingle(session_id) == session_id[1] = "stream"

(* C11: a preview request that names a registered session made by a non-stem
   process_single gets as far as rendering: it is answered 200 unless the
   rendering itself failed. *)
C11_PreviewFindsSingleSession ==
    (/\ sessResp.ep = "preview"
     /\ FromProcessSingle(sessResp.session_id)
     /\ sessResp.session_id \in DOMAIN preview_generators) =>
        (sessResp.code = 200 \/ sessResp.message = "render failed")

(* a step in which process_single answers a request it had accepted past the
   duplicate check *)
ProcessSingleAnswers(code) ==
    nextJob' = nextJob + 1 /\ resp'.ep = "process_single" /\ resp'.code = code

(* C12: a process_single request that is answered 400 leaves the contents of
   the upload directory as they were before the request. *)
C12_RejectionKeepsUploads ==
    [][ProcessSingleAnswers(400) => uploadDir' = uploadDir]_vars

----------------------------------------------------------------------------
(* The stateless endpoints and the audio routines *)

(* process_channel, src/app/audio/channel_processor.py:18-137.  An audio file
   is its sample rate, its channel count and its frames, each frame a tuple
   with one sample per channel.  Samples are integers; the two values are
   multiples of four so that a channel mean and a half-way blend are exact. *)

Samples == {0, 4}

SampleRates == {44100, 48000}

(* blend_ratio is counted in steps of 1 / BlendFull: 0 is 0.0, BlendFull is 1.0 *)
BlendFull == 2

FramesOf(channels) ==
    UNION {[1..n -> [1..channels -> Samples]] : n \in 0..MaxFrames}

AudioFiles ==
    {[sr |-> sr, channels |-> ch, frames |-> fr] :
        sr \in SampleRates, ch \in 1..2, fr \in FramesOf(1) \cup FramesOf(2)}

(* the files soundfile can hold: every frame has `channels` samples *)
WellFormed(audio) == \A i \in 1..Len(audio.frames) : Len(audio.frames[i]) = audio.channels

(* 124, 126: np.mean(audio, axis=1, keepdims=True) *)
mean_channels(audio) ==
    [channels |-> 1,
     frames |-> [i \in 1..Len(audio.frames) |->
                    <<(audio.frames[i][1] + audio.frames[i][2]) \div 2>>]]

(* 130-135: np.pad(audio, ((0, max_len - len(audio)), (0, 0)), 'constant') *)
pad(audio, max_len) ==
    [channels |-> audio.channels,
     frames |-> [i \in 1..max_len |->
                    IF i <= Len(audio.frames) THEN audio.frames[i]
                    ELSE [c \in 1..audio.channels |-> 0]]]

(* 102-137: the pair of arrays brought to one shape *)
_align_audio_arrays(audio1, audio2) ==
    LET a1 == IF audio1.channels # audio2.channels /\ audio1.channels > 1
              THEN mean_channels(audio1)
              ELSE [channels |-> audio1.channels, frames |-> audio1.frames]
        a2 == IF audio1.channels # audio2.channels /\ audio2.channels > 1
              THEN mean_channels(audio2)
              ELSE [channels |-> audio2.channels, frames |-> audio2.frames]
        max_len == Max(Len(a1.frames), Len(a2.frames))
    IN  <<pad(a1, max_len), pad(a2, max_len)>>

(* a blend that takes the wet sample whatever the ratio *)
AlwaysWet(original, processed, blend_ratio) == processed

(* 80: original * (1.0 - blend_ratio) + processed * blend_ratio, one sample *)
blend_sample(original, processed, blend_ratio) ==
    (original * (BlendFull - blend_ratio) + processed * blend_ratio) \div BlendFull

(* 83-85: the sample times 10 ** (volume_adjust_db / 20.0); the product is
   kept as the pair it is made of, and 0 dB multiplies nothing *)
apply_gain(sample, volume_adjust_db) ==
    IF volume_adjust_db = 0 THEN sample ELSE <<"gain", volume_adjust_db, sample>>

(* 47-99: what process_channel writes to output_path, or the exception it
   raises *)
process_channel(original, processed, blend_ratio, volume_adjust_db, mute) ==
    IF blend_ratio \notin 0..BlendFull \/ volume_adjust_db \notin (0 - 12)..12
    THEN [raised |-> "ValueError"]
    ELSE IF original.sr # processed.sr
         THEN [raised |-> "RuntimeError"]
         ELSE LET aligned == _align_audio_arrays(original, processed)
                  o == aligned[1]
                  p == aligned[2]
              IN  [raised |-> "",
                   sr |-> original.sr,
                   channels |-> o.channels,
                   frames |->
                      [i \in 1..Len(o.frames) |->
                          [c \in 1..o.channels |->
                              IF mute THEN 0
                              ELSE apply_gain(blend_sample(o.frames[i][c], p.frames[i][c],
                                                           blend_ratio),
                                              volume_adjust_db)]]]

(* AudioFrameSegmenter, src/tests/frame_processing/frame_algorithms.py:84-228.
   A signal is a sequence of rows, one or two samples each.  The configurations
   have a frame of at least one sample and an overlap shorter than the frame,
   as every FrameConfig the repository builds has; the overlap is at most one
   sample, for which both crossfade windows are the single weight 1.0. *)

Signals ==
    UNION {[1..n -> [1..ch -> Samples]] : n \in 0..MaxSignal, ch \in 1..2}

OverlapSizes == {0, 1, 2}

FrameConfigs ==
    {[full_frame_size |-> f, overlap_size |-> o, crossfade_type |-> t] :
        f \in 1..MaxSignal, o \in OverlapSizes,
        t \in {"none", "linear", "raised_cosine"}}

(* a hop that steps one sample past the end of the frame *)
HopPastFrame(config) == config.full_frame_size + 1

(* 26-29 *)
hop_size(config) == config.full_frame_size - config.overlap_size

(* 36-45, as filled in at 127-135 *)
FrameInfo(index, start_sample, end_sample, audio_length) ==
    [index |-> index, start_sample |-> start_sample, end_sample |-> end_sample,
     actual_size |-> end_sample - start_sample,
     needs_crossfade_start |-> start_sample > 0,
     needs_crossfade_end |-> end_sample < audio_length,
     is_last_frame |-> end_sample >= audio_length]

(* 114-151: the while loop, entered with current_start < audio_length *)
RECURSIVE segment_loop(_, _, _, _)
segment_loop(audio, config, current_start, frames) ==
    LET audio_length == Len(audio)
        frame_end == Min(current_start + config.full_frame_size, audio_length)
        appended == Append(frames,
                           [frame_data |-> SubSeq(audio, current_start + 1, frame_end),
                            frame_info |-> FrameInfo(Len(frames), current_start, frame_end,
                                                     audio_length)])
        next_start == current_start + hop_size(config)
    IN  IF next_start >= audio_length THEN appended
        ELSE segment_loop(audio, config, next_start, appended)

(* 92-153 *)
segment_audio(audio, config) ==
    IF Len(audio) <= config.full_frame_size
    THEN <<[frame_data |-> audio,
            frame_info |-> [index |-> 0, start_sample |-> 0, end_sample |-> Len(audio),
                            actual_size |-> Len(audio), needs_crossfade_start |-> FALSE,
                            needs_crossfade_end |-> FALSE, is_last_frame |-> TRUE]]>>
    ELSE segment_loop(audio, config, 0, <<>>)

(* 48-83: the fade-out window of an overlap of up to two samples,
   np.linspace(1.0, 0.0, length) or cos(t / 2) ** 2 over np.linspace(0, pi, length):
   1 at the first sample and, at the second, 0 (cos(pi / 2) ** 2 is below 1e-32) *)
fade_out(length) == [i \in 1..length |-> IF i = 1 THEN 1 ELSE 0]

(* 204-228 *)
_apply_crossfade(frame_data, frame_info, config) ==
    IF config.crossfade_type = "none" \/ config.overlap_size = 0
    THEN frame_data
    ELSE IF frame_info.needs_crossfade_end /\ Len(frame_data) >= config.overlap_size
         THEN LET fade_region_start == Len(frame_data) - config.overlap_size
              IN  [i \in 1..Len(frame_data) |->
                      IF i > fade_region_start
                      THEN [c \in 1..Len(frame_data[i]) |->
                               frame_data[i][c] * fade_out(config.overlap_size)[i - fade_region_start]]
                      ELSE frame_data[i]]
         ELSE frame_data

(* 178-200: one pass of the overlap-add loop, output[start_pos:end_pos] += frame_data *)
add_frame(output, frame, config, original_length) ==
    LET start_pos == frame.frame_info.start_sample
        end_pos == Min(start_pos + Len(frame.frame_data), original_length)
        trimmed == SubSeq(frame.frame_data, 1, end_pos - start_pos)
        faded == IF config.overlap_size > 0 /\ ~frame.frame_info.is_last_frame
                 THEN _apply_crossfade(trimmed, frame.frame_info, config)
                 ELSE trimmed
    IN  IF end_pos <= start_pos THEN output
        ELSE [i \in 1..Len(output) |->
                 IF start_pos < i /\ i <= end_pos
                 THEN [c \in 1..Len(output[i]) |-> output[i][c] + faded[i - start_pos][c]]
                 ELSE output[i]]

RECURSIVE add_frames(_, _, _, _)
add_frames(output, processed_frames, config, original_length) ==
    IF processed_frames = <<>> THEN output
    ELSE add_frames(add_frame(output, Head(processed_frames), config, original_length),
                    Tail(processed_frames), config, original_length)

(* 155-202 *)
reconstruct_audio(processed_frames, original_length, config) ==
    IF processed_frames = <<>> THEN <<>>
    ELSE LET first_frame == processed_frames[1].frame_data
             width == IF first_frame = <<>> THEN 1 ELSE Len(first_frame[1])
             zeros == [i \in 1..original_length |-> [c \in 1..width |-> 0]]
         IN  add_frames(zeros, processed_frames, config, original_length)

(* FrameAwareLimiter, src/tests/frame_processing/frame_aware_limiter.py:108-328,
   and FrameAwareLimiterProcessor, 351-403.  The limiter keeps its lookahead
   buffer from call to call.  The configuration is scaled down: frames of
   MaxSignal samples and a lookahead of one sample, the least that
   _calculate_sample_parameters (150-170) yields. *)

limiter_config == [frame_size |-> MaxSignal, lookahead_size |-> 1]

(* the frames handed to the limiter: one-dimensional arrays of up to
   frame_size samples, a final frame being shorter *)
LimiterFrames == UNION {[1..n -> Samples] : n \in 0..limiter_config.frame_size}

LimiterGains == {0, 6}

(* 170-182: reset_state, the lookahead buffer of zeros *)
zeros_buffer == [i \in 1..limiter_config.lookahead_size |-> <<0, 0>>]

(* 206-215: the frame made stereo, then multiplied by the linear gain *)
coerce_and_gain(audio_frame, gain_adjust_db) ==
    [i \in 1..Len(audio_frame) |->
        <<apply_gain(audio_frame[i], gain_adjust_db),
          apply_gain(audio_frame[i], gain_adjust_db)>>]

(* 234-248 *)
_update_lookahead_buffer(lookahead_buffer, new_frame) ==
    LET stacked == lookahead_buffer \o new_frame
        max_buffer_size == limiter_config.lookahead_size + limiter_config.frame_size
    IN  IF Len(stacked) > max_buffer_size
        THEN SubSeq(stacked, Len(stacked) - max_buffer_size + 1, Len(stacked))
        ELSE stacked

(* 250-276: every sample times the gain the filters arrive at; the product is
   kept as the sample it was made of *)
_process_with_limiting(audio_buffer) ==
    [i \in 1..Len(audio_buffer) |->
        <<<<"limited", audio_buffer[i][1]>>, <<"limited", audio_buffer[i][2]>>>>]

(* 226-227: buffered_audio[:len(audio_frame)] *)
dry_frame(buffered_audio, frame_length) == SubSeq(buffered_audio, 1, frame_length)

(* the buffer the limiter holds: none before the first call, which makes it
   (201-202, 395-396) *)
LimiterBuffer ==
    IF dsp.op \in {"reset_state", "process_frame"} THEN dsp.lookahead_buffer
    ELSE zeros_buffer

(* FrameAwareLimiterProcessor.reset / initialize_limiter, 364-377 and 400-403 *)
LimiterReset ==
    /\ dsp' = [op |-> "reset_state", lookahead_buffer |-> zeros_buffer,
               audio_frame |-> <<>>, buffered |-> 0, returned |-> <<>>]
    /\ UNCHANGED progVars

(* process_audio_frame with enable_limiter, 379-398, which is process_frame,
   191-232 *)
ProcessFrame(audio_frame, gain_adjust_db) ==
    LET frame == coerce_and_gain(audio_frame, gain_adjust_db)
        buffered_audio == _update_lookahead_buffer(LimiterBuffer, frame)
    IN  /\ dsp' = [op |-> "process_frame", lookahead_buffer |-> buffered_audio,
                   audio_frame |-> frame, buffered |-> Len(buffered_audio),
                   returned |->
                      IF Len(buffered_audio) >= limiter_config.frame_size
                      THEN _process_with_limiting(
                               SubSeq(buffered_audio, 1, limiter_config.frame_size))
                      ELSE dry_frame(buffered_audio, Len(frame))]
        /\ UNCHANGED progVars

(* extract_loudest_segment, src/app/main.py:303-357.  The segment is
   segment_size samples long, int(segment_duration * sr) at 324, scaled down. *)

(* 317-321: np.mean(audio, axis=1) of a two-dimensional array; the samples are
   even, so the mean of two of them is whole *)
audio_mono(audio) ==
    [i \in 1..Len(audio.data) |->
        IF audio.ndim > 1 THEN (audio.data[i][1] + audio.data[i][2]) \div 2
        ELSE audio.data[i][1]]

(* 338: np.sqrt(np.mean(segment ** 2)) of the window at start; windows of one
   length are ordered by their sums of squares as by their RMS *)
RECURSIVE sum_of_squares(_, _, _)
sum_of_squares(mono, start, end) ==
    IF start >= end THEN 0
    ELSE mono[start + 1] * mono[start + 1] + sum_of_squares(mono, start + 1, end)

rms(mono, start) == sum_of_squares(mono, start, start + MaxSegment)

(* 335-342: for start in range(0, len(audio_mono) - segment_size, hop_size) *)
RECURSIVE loudest_loop(_, _, _, _)
loudest_loop(mono, start, max_rms, best_start) ==
    IF start >= Len(mono) - MaxSegment THEN best_start
    ELSE IF rms(mono, start) > max_rms
         THEN loudest_loop(mono, start + MaxSegment \div 4, rms(mono, start), start)
         ELSE loudest_loop(mono, start + MaxSegment \div 4, max_rms, best_start)

(* 303-357 *)
extract_loudest_segment(audio) ==
    IF Len(audio.data) <= MaxSegment
    THEN [raised |-> "", path |-> "audio_path", segment |-> audio, best_start |-> 0]
    ELSE IF MaxSegment \div 4 = 0
         THEN [raised |-> "ValueError"]
         ELSE LET best_start == loudest_loop(audio_mono(audio), 0, 0, 0)
              IN  [raised |-> "", path |-> "loudest_segment",
                   segment |-> [audio EXCEPT !.data = SubSeq(audio.data, best_start + 1,
                                                            best_start + MaxSegment)],
                   best_start |-> best_start]

(* segment_audio, frame_algorithms.py:92-153, one pass of its loop at a time.
   The record of a call holds the locals of the function. *)

(* audio[a:b] as numpy takes it: a negative index counts from the end *)
PySlice(audio, a, b) ==
    LET norm(x) == IF x < 0 THEN Max(x + Len(audio), 0) ELSE Min(x, Len(audio))
    IN  SubSeq(audio, norm(a) + 1, norm(b))

(* the passes the loop is followed for: one more than a signal has samples,
   which a loop that advances by a sample or more never needs *)
MaxPasses == MaxSignal + 1

(* the calls of segment_audio: every signal under every configuration, the
   overlap below, at and above the frame size *)
SegmentCalls ==
    {[op |-> "segment_audio", audio |-> audio, config |-> config, pc |-> "called",
      current_start |-> 0, frame_index |-> 0, frames |-> <<>>] :
        audio \in Signals, config \in FrameConfigs}

(* 102-116: the short signal is returned whole, any other enters the loop *)
SegmentEnter ==
    /\ dsp.op = "segment_audio"
    /\ dsp.pc = "called"
    /\ dsp' = IF Len(dsp.audio) <= dsp.config.full_frame_size
              THEN [dsp EXCEPT !.pc = "returned",
                               !.frames = <<[frame_data |-> dsp.audio,
                                             frame_info |-> [FrameInfo(0, 0, Len(dsp.audio),
                                                                       Len(dsp.audio))
                                                 EXCEPT !.needs_crossfade_end = FALSE,
                                                        !.is_last_frame = TRUE]]>>]
              ELSE [dsp EXCEPT !.pc = "while"]
    /\ UNCHANGED progVars

(* 120-151: one pass of `while current_start < audio_length` *)
SegmentPass ==
    /\ dsp.op = "segment_audio"
    /\ dsp.pc = "while"
    /\ dsp.frame_index < MaxPasses
    /\ LET audio_length == Len(dsp.audio)
           frame_end == Min(dsp.current_start + dsp.config.full_frame_size, audio_length)
           next_start == dsp.current_start + hop_size(dsp.config)
       IN  dsp' = [dsp EXCEPT
                      !.frames = Append(@,
                          [frame_data |-> PySlice(dsp.audio, dsp.current_start, frame_end),
                           frame_info |-> FrameInfo(dsp.frame_index, dsp.current_start,
                                                    frame_end, audio_length)]),
                      !.current_start = next_start,
                      !.frame_index = @ + 1,
                      !.pc = IF next_start >= audio_length THEN "returned" ELSE "while"]
    /\ UNCHANGED progVars

(* a call that has been made and has not returned yet *)
Pending == [raised |-> "pending"]

(* the calls of process_channel: ratios in and one step out of range, gains
   at the low end of the range, at 0 dB and out of range *)
BlendRatios == 0..(BlendFull + 1)

VolumeAdjustments == {0 - 12, 0, 13}

ChannelCalls ==
    {[op |-> "process_channel", original |-> original, processed |-> processed,
      blend_ratio |-> blend_ratio, volume_adjust_db |-> volume_adjust_db, mute |-> mute,
      output |-> Pending] :
        original \in {a \in AudioFiles : WellFormed(a)},
        processed \in {a \in AudioFiles : WellFormed(a)},
        blend_ratio \in BlendRatios, volume_adjust_db \in VolumeAdjustments,
        mute \in BOOLEAN}

(* the reference files of extract_loudest_segment: mono and stereo, up to
   MaxAudio samples; a sample of a one-dimensional array is a row of one *)
ReferenceAudio ==
    UNION {{[ndim |-> ndim, data |-> data] : data \in [1..n -> [1..ndim -> Samples]]} :
              n \in 0..MaxAudio, ndim \in 1..2}

LoudestCalls ==
    {[op |-> "extract_loudest_segment", audio |-> audio, output |-> Pending] :
        audio \in ReferenceAudio}

(* extract_loudest_segment runs on the file of the call *)
ExtractLoudestSegment ==
    /\ dsp.op = "extract_loudest_segment"
    /\ dsp.output = Pending
    /\ dsp' = [dsp EXCEPT !.output = extract_loudest_segment(dsp.audio)]
    /\ UNCHANGED progVars

(* the calls of the segmenter: segment a signal and put the frames back *)
SegmenterCalls ==
    {[op |-> "reconstruct_audio", audio |-> audio, config |-> config, frames |-> <<>>,
      output |-> Pending] :
        audio \in Signals,
        config \in {k \in FrameConfigs : k.overlap_size < k.full_frame_size}}

(* run_basic_test.py:84-89: segment_audio, then reconstruct_audio on its frames *)
SegmentAndReconstruct ==
    /\ dsp.op = "reconstruct_audio"
    /\ dsp.output = Pending
    /\ dsp' = [dsp EXCEPT
                  !.frames = segment_audio(dsp.audio, dsp.config),
                  !.output = [raised |-> "",
                              audio |-> reconstruct_audio(segment_audio(dsp.audio, dsp.config),
                                                          Len(dsp.audio), dsp.config)]]
    /\ UNCHANGED progVars

(* process_channel runs on the arguments of the call *)
ProcessChannel ==
    /\ dsp.op = "process_channel"
    /\ dsp.output = Pending
    /\ dsp' = [dsp EXCEPT !.output = process_channel(dsp.original, dsp.processed,
                                                     dsp.blend_ratio, dsp.volume_adjust_db,
                                                     dsp.mute)]
    /\ UNCHANGED progVars

ClientRatios == {0 - 1, 0, 25, 50, 75, 100, 101}

ClientGains == {0 - 13, 0 - 12, 0 - 6, 0, 6, 12, 13}

DspNext ==
    \/ \E blend_ratio \in ClientRatios, volume_adjust_db \in ClientGains,
          processed \in BOOLEAN :
            ApiProcessChannel(blend_ratio, volume_adjust_db, processed)
    \/ \E input_files \in 1..MaxLimiterInputs, gain_adjust_db \in ClientGains,
          processed \in BOOLEAN :
            ApiProcessLimiter(input_files, gain_adjust_db, processed)

DspSpec == Init /\ [][DspNext]_vars

(* The frame-aware limiter fed frame after frame *)
LimiterNext ==
    \/ LimiterReset
    \/ \E audio_frame \in LimiterFrames, gain_adjust_db \in LimiterGains :
          ProcessFrame(audio_frame, gain_adjust_db)

LimiterSpec == Init /\ [][LimiterNext]_vars

(* segment_audio called on every signal and configuration, and run pass by
   pass; the interpreter keeps running the loop *)
SegmentInit ==
    /\ active_jobs = {}
    /\ processing_progress = <<>>
    /\ batch_jobs = <<>>
    /\ uploadDir = <<>>
    /\ jobs = <<>>
    /\ nextJob = 1
    /\ resp = Response("none", 0, FALSE)
    /\ clock = 0
    /\ preview_generators = <<>>
    /\ session_parameters = <<>>
    /\ active_websockets = <<>>
    /\ websocket_tasks = <<>>
    /\ conns = <<>>
    /\ nextConn = 1
    /\ nextUuid = 1
    /\ sessResp = SessionResponse("none", 0, "", NoSession)
    /\ tqdm_tqdm = OriginalTqdm
    /\ separator_tqdm = OriginalTqdm
    /\ interceptors = <<>>
    /\ dsp \in SegmentCalls

SegmentNext ==
    \/ SegmentEnter
    \/ SegmentPass

SegmentSpec ==
    /\ SegmentInit
    /\ [][SegmentNext]_vars
    /\ WF_vars(SegmentEnter)
    /\ WF_vars(SegmentPass)

(* The audio routines are functions of their arguments: every call in the
   bounded sets is a start state, and the step is the routine running. *)
AudioInit ==
    /\ active_jobs = {}
    /\ processing_progress = <<>>
    /\ batch_jobs = <<>>
    /\ uploadDir = <<>>
    /\ jobs = <<>>
    /\ nextJob = 1
    /\ resp = Response("none", 0, FALSE)
    /\ clock = 0
    /\ preview_generators = <<>>
    /\ session_parameters = <<>>
    /\ active_websockets = <<>>
    /\ websocket_tasks = <<>>
    /\ conns = <<>>
    /\ nextConn = 1
    /\ nextUuid = 1
    /\ sessResp = SessionResponse("none", 0, "", NoSession)
    /\ tqdm_tqdm = OriginalTqdm
    /\ separator_tqdm = OriginalTqdm
    /\ interceptors = <<>>
    /\ dsp \in ChannelCalls \cup SegmenterCalls \cup LoudestCalls

AudioNext ==
    \/ ProcessChannel
    \/ SegmentAndReconstruct
    \/ ExtractLoudestSegment

AudioSpec == AudioInit /\ [][AudioNext]_vars

(* a request to process_channel or process_limiter with a parameter out of
   range or too many files *)
OutOfRange ==
    /\ dsp.op \in {"api_process_channel", "api_process_limiter"}
    /\ \/ dsp.blend_ratio \notin 0..100
       \/ dsp.gain_db \notin (0 - 12)..12
       \/ dsp.files > 2

(* C13: process_channel and process_limiter answer a request with an
   out-of-range parameter, or with more than two input files, with 400. *)
C13_OutOfRangeIs400 == OutOfRange => dsp.code = 400

(* C14: /api/frame/initialize called with neither an audio file nor both stem
   files is answered 400. *)
C14_InitializeWithoutAudioIs400 ==
    (sessResp.ep = "initialize" /\ sessResp.message = "Either audio_file or both") =>
        sessResp.code = 400

(* the answer to a non-stem process_single request that carried neither or
   both of the reference file and the preset file *)
AnswersInvalidChoice(r) ==
    /\ r.ep = "process_single" /\ r.code # 429
    /\ ~r.supplied.stem
    /\ r.supplied.reference = r.supplied.preset

(* C15: a non-stem process_single request with neither or both of reference
   and preset is answered 400 and registers no streaming session. *)
C15_ExactlyOneOfReferencePreset ==
    [][(nextJob' = nextJob + 1 /\ AnswersInvalidChoice(resp')) =>
          /\ resp'.code = 400
          /\ preview_generators' = preview_generators
          /\ session_parameters' = session_parameters]_vars

(* a request with both files was answered 400 *)
C15_Witness ==
    /\ AnswersInvalidChoice(resp) /\ resp.code = 400
    /\ resp.supplied.reference /\ resp.supplied.preset

(* the step in which connection c is sent an error reply *)
ErrorReply(c) == conns[c].open /\ conns[c].last # "error" /\ conns'[c].last = "error"

(* C16: a message that is not valid JSON, or whose handling raises, is
   answered with an error reply and changes nothing else: the connection stays
   open, its cursor, playing flag and streaming task are as before, and the
   registries keep their entries, so the next control message is handled. *)
C16_ErrorReplyKeepsSocket ==
    [][\A c \in DOMAIN conns :
          ErrorReply(c) =>
              /\ conns'[c] = [conns[c] EXCEPT !.last = "error"]
              /\ active_websockets' = active_websockets
              /\ websocket_tasks' = websocket_tasks]_vars

(* a connection that was sent an error reply while it was playing, still open
   with its streaming task running *)
C16_Witness ==
    \E c \in DOMAIN conns :
        /\ conns[c].last = "error" /\ conns[c].open
        /\ conns[c].is_playing /\ conns[c].task = "running"

(* the step in which a client connects with a session id that is not registered *)
ConnectsUnregistered ==
    /\ nextConn' = nextConn + 1
    /\ nextConn \in DOMAIN conns'
    /\ conns'[nextConn].sid \notin DOMAIN preview_generators

(* C17: a connection whose session id is not registered is closed at once
   with code 1008; it adds no entry to active_websockets or websocket_tasks
   and no streaming task is started for it. *)
C17_UnregisteredClosed1008 ==
    [][ConnectsUnregistered =>
          /\ conns'[nextConn].closeCode = 1008
          /\ ~conns'[nextConn].open
          /\ conns'[nextConn].task = "none"
          /\ active_websockets' = active_websockets
          /\ websocket_tasks' = websocket_tasks]_vars

(* a refused connection next to a registered one that is still streaming *)
C17_Witness ==
    \E c, d \in DOMAIN conns :
        /\ conns[c].closeCode = 1008 /\ conns[c].sid \notin DOMAIN preview_generators
        /\ conns[d].open /\ conns[d].task = "running"
        /\ conns[d].sid \in DOMAIN active_websockets /\ active_websockets[conns[d].sid] = d

(* a run of /api/process_stems, the separation that no interceptor surrounds *)
ProcessStemsAnswers == resp.ep # "process_stems" /\ resp'.ep = "process_stems"

(* C18: once the `with` blocks have ended the separator modules hold the
   progress-bar factory they held before entry, so a separation run while no
   interceptor is inside its block changes no job's progress record. *)
C18_OriginalFactoryRestored ==
    [][/\ NoneInside' => separator_tqdm' = OriginalTqdm
       /\ (NoneInside /\ ProcessStemsAnswers) =>
              processing_progress' = processing_progress]_vars

(* a call of process_channel the statement is about: equal sample rates, 0 dB,
   mute off *)
PlainBlend(blend_ratio) ==
    /\ dsp.op = "process_channel"
    /\ dsp.output # Pending
    /\ dsp.original.sr = dsp.processed.sr
    /\ dsp.volume_adjust_db = 0 /\ ~dsp.mute
    /\ dsp.blend_ratio = blend_ratio

(* the file written holds exactly the signal of `audio` *)
OutputEquals(audio) ==
    /\ dsp.output.raised = ""
    /\ dsp.output.sr = audio.sr
    /\ dsp.output.channels = audio.channels
    /\ dsp.output.frames = audio.frames

SameShape ==
    /\ dsp.original.channels = dsp.processed.channels
    /\ Len(dsp.original.frames) = Len(dsp.processed.frames)

(* C19 as stated: whatever the lengths and channel counts, blend_ratio 0.0
   writes the dry signal and blend_ratio 1.0 writes the wet signal. *)
C19_ExtremeBlendIsInput ==
    /\ PlainBlend(0) => OutputEquals(dsp.original)
    /\ PlainBlend(BlendFull) => OutputEquals(dsp.processed)

(* C19, amended: when dry and wet have the same length and channel count,
   blend_ratio 0.0 writes the dry signal and blend_ratio 1.0 the wet signal;
   in every case the output has the length of the longer input. *)
C19_ExtremeBlendIsInputOfSameShape ==
    /\ (PlainBlend(0) /\ SameShape) => OutputEquals(dsp.original)
    /\ (PlainBlend(BlendFull) /\ SameShape) => OutputEquals(dsp.processed)
    /\ (PlainBlend(0) \/ PlainBlend(BlendFull)) =>
           Len(dsp.output.frames) = Max(Len(dsp.original.frames), Len(dsp.processed.frames))

(* a dry-only blend of two different stereo signals of the same length *)
C19_Witness ==
    /\ PlainBlend(0) /\ SameShape
    /\ dsp.original.channels = 2 /\ Len(dsp.original.frames) = MaxFrames
    /\ dsp.original.frames # dsp.processed.frames
    /\ OutputEquals(dsp.original)

(* a finished segment-and-reconstruct with a configuration without overlap *)
ReconstructedWithoutOverlap ==
    /\ dsp.op = "reconstruct_audio"
    /\ dsp.output # Pending
    /\ dsp.config.overlap_size = 0

(* the frames that hold sample position s *)
FramesHolding(s) ==
    {k \in 1..Len(dsp.frames) :
        /\ dsp.frames[k].frame_info.start_sample <= s
        /\ s < dsp.frames[k].frame_info.end_sample}

(* C20: with overlap_size = 0, reconstruct_audio(segment_audio(x), len(x)) is
   x; each frame starts where the one before it ends, and every sample lies
   in exactly one frame. *)
C20_ZeroOverlapRoundTrip ==
    ReconstructedWithoutOverlap =>
        /\ dsp.output.audio = dsp.audio
        /\ \A k \in 1..(Len(dsp.frames) - 1) :
               dsp.frames[k + 1].frame_info.start_sample = dsp.frames[k].frame_info.end_sample
        /\ \A s \in 0..(Len(dsp.audio) - 1) : Cardinality(FramesHolding(s)) = 1

(* a signal cut into two frames, the last one short, and put back *)
C20_Witness ==
    /\ ReconstructedWithoutOverlap
    /\ Len(dsp.frames) = 2
    /\ Len(dsp.frames[2].frame_data) < dsp.config.full_frame_size
    /\ dsp.audio[Len(dsp.audio)][1] # 0
    /\ dsp.output.audio = dsp.audio

(* a poll of job j answered with one of the stages the polling clients stop on *)
PolledTerminal(j) ==
    /\ resp.ep = "progress" /\ resp.code = 200 /\ resp.job_id = j
    /\ resp.stage \in {"completed", "error"}

(* C21: polling the progress of an accepted stem-separation or stem-processing
   job ends: the client eventually reads stage "completed" or stage "error". *)
C21_PollingEnds ==
    \A j \in 1..MaxJobs :
        []((j \in DOMAIN jobs /\ Background(j)) => <>PolledTerminal(j))

(* the step in which a request is accepted: each of the four job endpoints
   purges the upload directory before it writes its own files *)
RequestAccepted == nextJob' = nextJob + 1

(* C22: the purge keeps of the upload directory exactly the names on the
   caller's preserve-list; so once a later request has been accepted, the
   input file of an earlier stem separation, whose generated name is on no
   other request's list, is gone, whether or not that separation still runs. *)
C22_PurgeSparesOnlyPreserved ==
    [][/\ \A preserve_files \in SUBSET (UserNames \cup DOMAIN uploadDir) :
              DOMAIN cleanup_processing_files(uploadDir, preserve_files)
                  = DOMAIN uploadDir \cap preserve_files
       /\ RequestAccepted =>
              \A k \in 1..(nextJob - 1) : StemInputName(k) \notin DOMAIN uploadDir']_vars

(* a stem separation that has not reached its `finally`, whose input file was
   deleted by the purge of a request accepted after it *)
C22_Witness ==
    \E j \in Unfinished :
        /\ jobs[j].kind = "separate" /\ jobs[j].pc \in {"init", "separate"}
        /\ nextJob > j + 1
        /\ StemInputName(j) \in Range(jobs[j].targets)
        /\ StemInputName(j) \notin DOMAIN uploadDir

(* C23: once a job's record reports stage "complete" with progress 100, no
   step changes its stage or its progress. *)
C23_CompleteIsStable ==
    [][\A j \in DOMAIN processing_progress :
          (processing_progress[j].stage = "complete" /\ processing_progress[j].progress = 100) =>
              /\ processing_progress'[j].stage = "complete"
              /\ processing_progress'[j].progress = 100]_vars

(* C24: a session-creating request never writes over a registered session:
   the file paths a session id stands for stay those of the request that
   created it, as long as the id is registered. *)
C24_SessionNeverOverwritten ==
    [][\A session_id \in (DOMAIN preview_generators) \cap (DOMAIN preview_generators') :
          preview_generators'[session_id].owner = preview_generators[session_id].owner]_vars

(* what holds of one batch record *)
BatchRecordSound(record) ==
    /\ 0 <= record.processed_count /\ record.processed_count <= record.total_count
    /\ record.status \in {"pending", "completed", "failed"}
    /\ record.status = "completed" =>
           /\ record.processed_count = record.total_count
           /\ Len(record.output_files) = record.total_count

(* C25: every batch record has 0 <= processed_count <= total_count and a
   status among pending, completed, failed; a status other than pending never
   changes again; a completed batch has processed_count = total_count and
   total_count output files. *)
C25_BatchRecordInvariant ==
    [][\A b \in DOMAIN batch_jobs' :
          /\ BatchRecordSound(batch_jobs'[b])
          /\ (b \in DOMAIN batch_jobs /\ batch_jobs[b].status # "pending") =>
                 batch_jobs'[b].status = batch_jobs[b].status]_vars

(* a batch of MaxBatch targets that completed, next to one that failed after
   its first target was counted *)
C25_Witness ==
    \E b \in DOMAIN batch_jobs, d \in DOMAIN batch_jobs :
        /\ batch_jobs[b].status = "completed" /\ batch_jobs[b].total_count = MaxBatch
        /\ batch_jobs[d].status = "failed" /\ batch_jobs[d].processed_count = 1
        /\ batch_jobs[d].total_count = MaxBatch

(* C26: when fewer than frame_size samples are buffered after the input frame
   has been appended, process_frame returns the gain-adjusted, stereo input
   frame itself. *)
C26_ShortBufferReturnsInput ==
    (dsp.op = "process_frame" /\ dsp.buffered < limiter_config.frame_size) =>
        dsp.returned = dsp.audio_frame

(* C27: with limiting enabled, process_audio_frame returns as many samples as
   the input frame has. *)
C27_OutputLengthIsInputLength ==
    dsp.op = "process_frame" => Len(dsp.returned) = Len(dsp.audio_frame)

(* the starts the scan is to cover: multiples of the hop whose window fits *)
WindowStarts(audio) ==
    {s \in 0..(Len(audio.data) - MaxSegment) : s % (MaxSegment \div 4) = 0}

(* C28: for a reference longer than the segment, extract_loudest_segment
   returns a segment of exactly the window's length, and it is the window of
   highest RMS among those starting at a multiple of window/4 and fitting in
   the signal. *)
C28_LoudestWindowReturned ==
    (/\ dsp.op = "extract_loudest_segment"
     /\ dsp.output # Pending
     /\ Len(dsp.audio.data) > MaxSegment) =>
        /\ dsp.output.raised = ""
        /\ Len(dsp.output.segment.data) = MaxSegment
        /\ dsp.output.best_start \in WindowStarts(dsp.audio)
        /\ \A s \in WindowStarts(dsp.audio) :
              rms(audio_mono(dsp.audio), s) <=
                  rms(audio_mono(dsp.audio), dsp.output.best_start)

(* the frames of a segmentation that hold sample position i (from 1) *)
FramesCovering(frames, i) ==
    {k \in 1..Len(frames) :
        frames[k].frame_info.start_sample < i /\ i <= frames[k].frame_info.end_sample}

(* C29: with an overlap and a linear or raised-cosine crossfade, the weights
   reconstruct_audio gives the two frames that cover a sample sum to one:
   putting unmodified frames back yields the input at every sample that two
   adjacent frames cover. *)
C29_OverlapSumsToUnity ==
    (/\ dsp.op = "reconstruct_audio"
     /\ dsp.output # Pending
     /\ dsp.config.overlap_size > 0
     /\ dsp.config.crossfade_type \in {"linear", "raised_cosine"}) =>
        \A i \in 1..Len(dsp.audio) :
            Cardinality(FramesCovering(dsp.frames, i)) = 2 =>
                dsp.output.audio[i] = dsp.audio[i]

(* the frames made so far start one after the other *)
StartsIncrease ==
    \A k \in 1..(Len(dsp.frames) - 1) :
        dsp.frames[k].frame_info.start_sample < dsp.frames[k + 1].frame_info.start_sample

(* C30: segment_audio returns for every signal and every FrameConfig, and the
   frames it makes have strictly increasing start positions. *)
C30_SegmentationTerminates ==
    /\ [](dsp.op = "segment_audio" => StartsIncrease)
    /\ <>(dsp.op = "segment_audio" /\ dsp.pc = "returned")

============================================================================
